---- MODULE Spec2Model ----
(***************************************************************************)
(* Model of czsc's weight backtest (czsc/traders/weight_backtest.py):      *)
(* stoploss_by_direction, WeightBacktest.get_symbol_daily,                 *)
(* WeightBacktest.get_symbol_pairs and WeightBacktest.backtest; and of the *)
(* bar generator (czsc/utils/bar_generator.py): freq_end_time and          *)
(* BarGenerator.                                                           *)
(*                                                                         *)
(* Numbers.  Weights are carried as integers in hundredths (the table      *)
(* after round(digits) with digits = 2), prices as integers.  Every        *)
(* quotient the code forms is an exact rational [n |-> , d |-> ] in lowest *)
(* terms with d > 0; the record with d = 0 is pandas' NaN.  Floating point *)
(* rounding error is not modelled.                                         *)
(***************************************************************************)
EXTENDS Integers, Sequences, FiniteSets, TLC

VARIABLES
    pc,          \* position of the running call
    dfw,         \* the weight table: rows [dt, symbol, weight, price]
    slOut,       \* stoploss_by_direction: the returned table dfw1
    operates,    \* get_symbol_pairs: the list of unit open/close events
    opIdx,       \* get_symbol_pairs: events of operates consumed by the matching loop
    opens,       \* get_symbol_pairs: the stack of unmatched opens
    pairs,       \* get_symbol_pairs: the list of trade pairs
    dfs,         \* get_symbol_daily: the per-bar table dfs
    daily,       \* get_symbol_daily: the returned daily table
    sym,         \* the symbol argument of the running per-symbol call
    input,       \* WeightBacktest: the caller's table (weights in thousandths)
    cfg,         \* WeightBacktest: weight_type, n_jobs, cpu_count
    pool,        \* backtest: results taken by the loop (idx), the pool's worker
                 \* processes, and its tasks: pending (queue), running, and
                 \* finished in order of completion
    res,         \* backtest: the insertion-ordered result mapping
    inst,        \* WeightBacktest: the attributes _dailys and results
    trader,      \* get_ensemble_weight: symbol, positions (name, holds) and method
    dfp,         \* get_ensemble_weight: the frame dfp, the positions consumed (k)
                 \* and the returned table (out)
    bg,          \* BarGenerator: base_freq, max_count, symbol, end_dt and bars
    fed,         \* BarGenerator: the bars update has accepted, in order
    call         \* BarGenerator: the last call, its arguments, its outcome and
                 \* the bars before it; the frequencies loaded by init_freq_bars
                 \* and the bar of the call before (prev)

vars == <<pc, dfw, sym, slOut, operates, opIdx, opens, pairs, dfs, daily, input, cfg, pool, res, inst,
          trader, dfp, bg, fed, call>>

slVars == <<slOut>>
pairVars == <<operates, opIdx, opens, pairs>>
dailyVars == <<dfs, daily>>
btVars == <<input, cfg, pool, res, inst>>
ensVars == <<trader, dfp>>
bgVars == <<bg, fed, call>>

----------------------------------------------------------------------------
(* Exact arithmetic *)

Abs(x) == IF x < 0 THEN -x ELSE x

Sign(x) == IF x > 0 THEN 1 ELSE IF x < 0 THEN -1 ELSE 0

Min2(a, b) == IF a <= b THEN a ELSE b

RECURSIVE GCD(_, _)
GCD(a, b) == IF b = 0 THEN a ELSE GCD(b, a % b)

\* pandas' missing value
NaN == [n |-> 0, d |-> 0]

IsNaN(x) == x.d = 0

\* the rational n/d (d > 0) in lowest terms
Q(n, d) == LET g == GCD(Abs(n), d) IN [n |-> n \div g, d |-> d \div g]

QInt(k) == [n |-> k, d |-> 1]

\* float arithmetic propagates NaN
QAdd(a, b) ==
    IF IsNaN(a) \/ IsNaN(b) THEN NaN
    ELSE LET g == GCD(a.d, b.d)
         IN Q(a.n * (b.d \div g) + b.n * (a.d \div g), (a.d \div g) * b.d)

QNeg(a) == [n |-> -a.n, d |-> a.d]

QSub(a, b) == QAdd(a, QNeg(b))

QMul(a, b) ==
    IF IsNaN(a) \/ IsNaN(b) THEN NaN
    ELSE LET g1 == GCD(Abs(a.n), b.d)
             g2 == GCD(Abs(b.n), a.d)
         IN Q((a.n \div g1) * (b.n \div g2), (a.d \div g2) * (b.d \div g1))

QAbs(a) == [n |-> Abs(a.n), d |-> a.d]

\* a comparison with NaN is False
QLt(a, b) == ~IsNaN(a) /\ ~IsNaN(b) /\ a.n * b.d < b.n * a.d

RECURSIVE Pow10(_)
Pow10(k) == IF k = 0 THEN 1 ELSE 10 * Pow10(k - 1)

\* round(x, digits) with scale = 10^digits: the nearest multiple of 1/scale,
\* a tie going to the even one (Python's round and numpy's round alike)
RoundHalfEven(x, scale) ==
    IF IsNaN(x) THEN NaN
    ELSE LET g == GCD(x.d, scale)
             dd == x.d \div g
             t == (x.n % x.d) * (scale \div g)
             base == (x.n \div x.d) * scale + (t \div dd)
             rem == t % dd
         IN Q(IF 2 * rem < dd THEN base
              ELSE IF 2 * rem > dd THEN base + 1
              ELSE IF base % 2 = 0 THEN base ELSE base + 1, scale)

\* timestamps are counted in bar slots, SlotsPerDay to a calendar day
SlotsPerDay == 2

\* dt.date
DateOf(dt) == dt \div SlotsPerDay

\* a weight column value (hundredths) as a number
WeightOf(w) == Q(w, 100)

----------------------------------------------------------------------------
(* Tables *)

\* the symbols, in sorted() order
SymbolOrder == <<"A", "B", "C">>

\* a variant of SymbolRows: the rows are not filtered
SymbolRowsAll(table, symbol) == table

\* the rows of one symbol, in table order: dfw[dfw["symbol"] == symbol]
SymbolRows(table, symbol) == SelectSeq(table, LAMBDA r : r.symbol = symbol)

SymbolsOf(table) == {table[i].symbol : i \in 1..Len(table)}

\* sorted(symbols)
SortedSymbols(S) == SelectSeq(SymbolOrder, LAMBDA s : s \in S)

RECURSIVE Concat(_)
Concat(ss) == IF ss = <<>> THEN <<>> ELSE Head(ss) \o Concat(Tail(ss))

\* price.shift(-1) / price - 1: the last row has no next price
N1b(g, i) ==
    IF i < Len(g) THEN QSub(Q(g[i + 1].price, g[i].price), QInt(1)) ELSE NaN

----------------------------------------------------------------------------
(* stoploss_by_direction *)

StoplossNum == 3
StoplossDen == 100

\* the default stoploss = 0.03
Stoploss == Q(StoplossNum, StoplossDen)

\* is_stop: the breach is flagged only on a row that continues its order
IsStopRow(breach, sameOrder) == breach /\ sameOrder

\* a variant of ReturnsWeight: the filtered weight
ReturnsWeightFiltered(raw, filtered) == filtered

\* the weight in returns = n1b * weight (line 135): the column still holds the
\* raw weight there, it is zeroed at lines 142-143
ReturnsWeight(raw, filtered) == raw

\* a variant of HoldReturns: the sum runs on across the segments
HoldReturnsCarried(same, prev, returns) ==
    IF "hold_returns" \in DOMAIN prev /\ ~IsNaN(prev.hold_returns)
    THEN QAdd(prev.hold_returns, returns) ELSE returns

\* returns.groupby(order_id).cumsum() (line 136): the sum restarts with the segment
HoldReturns(same, prev, returns) ==
    IF same THEN QAdd(prev.hold_returns, returns) ELSE returns

\* row i of one symbol's group dfg (rows in time order), from the row before it
\* (prev is the returned row i - 1; it is not read for i = 1)
StoplossRow(g, i, prev, stoploss) ==
    LET direction == Sign(g[i].weight)
        \* order_id == order_id.shift(1)
        same == i > 1 /\ direction = prev.direction
        order_id == IF i = 1 THEN 0 ELSE IF same THEN prev.order_id ELSE prev.order_id + 1
        \* c1 = is_stop.shift(1) & (order_id == order_id.shift(1))
        c1 == same /\ prev.is_stop
        weight == IF c1 THEN 0 ELSE g[i].weight
        returns == QMul(N1b(g, i), WeightOf(ReturnsWeight(g[i].weight, weight)))
        \* groupby(order_id).cumsum() / cummin(): a NaN row stays NaN; only the
        \* last row of the group has one
        hold == IF IsNaN(returns) THEN NaN
                ELSE HoldReturns(same, prev, returns)
        minhold == IF IsNaN(hold) THEN NaN
                   ELSE IF same /\ QLt(prev.min_hold_returns, hold) THEN prev.min_hold_returns
                   ELSE hold
    IN [dt |-> g[i].dt, symbol |-> g[i].symbol, price |-> g[i].price,
        weight |-> weight,
        raw_weight |-> g[i].weight,
        direction |-> direction, order_id |-> order_id,
        hold_returns |-> hold, min_hold_returns |-> minhold,
        is_stop |-> IsStopRow(QLt(minhold, QNeg(stoploss)), same)]

RECURSIVE StoplossScan(_, _, _)
StoplossScan(g, acc, stoploss) ==
    IF Len(acc) = Len(g) THEN acc
    ELSE LET i == Len(acc) + 1
             prev == IF i = 1 THEN g[1] ELSE acc[i - 1]
         IN StoplossScan(g, Append(acc, StoplossRow(g, i, prev, stoploss)), stoploss)

StoplossGroup(g, stoploss) == StoplossScan(g, <<>>, stoploss)

\* rows of all groups, concatenated in groupby order
StoplossTable(table, stoploss) ==
    LET syms == SortedSymbols(SymbolsOf(table))
    IN Concat([k \in 1..Len(syms) |-> StoplossGroup(SymbolRows(table, syms[k]), stoploss)])

----------------------------------------------------------------------------
(* WeightBacktest.get_symbol_pairs *)

\* digits: decimals kept of the weight column (the default)
Digits == 2

\* hundredths w (|w| <= 112) whose float product (w / 100) * 100 lies just
\* below w in IEEE double arithmetic
FloatShort == {29, 57, 58}

\* (weight * pow(10, digits)).astype(int): the float product, truncated toward 0
VolumeOf(w) ==
    LET m == Abs(w) * Pow10(Digits)
        v == IF m % 100 = 0 /\ (m \div 100) \in FloatShort THEN (m \div 100) - 1
             ELSE m \div 100
    IN Sign(w) * v

\* the operate values: 开多, 平多, 开空, 平空
OpenLong == "open_long"
CloseLong == "close_long"
OpenShort == "open_short"
CloseShort == "close_short"

\* dfs with the volume and bar_id columns, as records
PairRows(table, symbol) ==
    LET g == SymbolRows(table, symbol)
    IN [i \in 1..Len(g) |->
          [dt |-> g[i].dt, price |-> g[i].price, volume |-> VolumeOf(g[i].weight), bar_id |-> i]]

\* a variant of AddOperate: one event for the whole volume
AddOperateOnce(dt, bar_id, volume, price, operate) ==
    IF volume = 0 THEN <<>>
    ELSE <<[bar_id |-> bar_id, dt |-> dt, price |-> price, operate |-> operate]>>

\* __add_operate: abs(volume) unit events
AddOperate(dt, bar_id, volume, price, operate) ==
    [k \in 1..Abs(volume) |-> [bar_id |-> bar_id, dt |-> dt, price |-> price, operate |-> operate]]

\* the events of the first row
FirstOperates(row) ==
    IF row.volume > 0 THEN AddOperate(row.dt, row.bar_id, row.volume, row.price, OpenLong)
    ELSE IF row.volume < 0 THEN AddOperate(row.dt, row.bar_id, row.volume, row.price, OpenShort)
    ELSE <<>>

\* a variant of FlipOperates: the close is priced at the previous bar
FlipOperatesPrevPrice(row1, row2, closeOp, openOp) ==
    [k \in 1..Abs(row1.volume) |->
        [bar_id |-> row2.bar_id, dt |-> row2.dt, price |-> row1.price, operate |-> closeOp]]
        \o [k \in 1..Abs(row2.volume) |->
        [bar_id |-> row2.bar_id, dt |-> row2.dt, price |-> row2.price, operate |-> openOp]]

\* a variant of FlipOperates: row2's volume is opened, row1's is left open
FlipOperatesNoClose(row1, row2, closeOp, openOp) ==
    AddOperate(row2.dt, row2.bar_id, row2.volume, row2.price, openOp)

\* a variant of FlipOperates: row2's volume is opened before row1's is closed
FlipOperatesOpenFirst(row1, row2, closeOp, openOp) ==
    AddOperate(row2.dt, row2.bar_id, row2.volume, row2.price, openOp)
        \o AddOperate(row2.dt, row2.bar_id, row1.volume, row2.price, closeOp)

\* a change of direction: close all of row1's volume, then open row2's, at row2
FlipOperates(row1, row2, closeOp, openOp) ==
    AddOperate(row2.dt, row2.bar_id, row1.volume, row2.price, closeOp)
        \o AddOperate(row2.dt, row2.bar_id, row2.volume, row2.price, openOp)

\* the events of two consecutive rows
NextOperates(row1, row2) ==
    IF row1.volume >= 0 /\ row2.volume >= 0
    THEN IF row2.volume > row1.volume
         THEN AddOperate(row2.dt, row2.bar_id, row2.volume - row1.volume, row2.price, OpenLong)
         ELSE IF row2.volume < row1.volume
         THEN AddOperate(row2.dt, row2.bar_id, row1.volume - row2.volume, row2.price, CloseLong)
         ELSE <<>>
    ELSE IF row1.volume <= 0 /\ row2.volume <= 0
    THEN IF row2.volume > row1.volume
         THEN AddOperate(row2.dt, row2.bar_id, row1.volume - row2.volume, row2.price, CloseShort)
         ELSE IF row2.volume < row1.volume
         THEN AddOperate(row2.dt, row2.bar_id, row2.volume - row1.volume, row2.price, OpenShort)
         ELSE <<>>
    ELSE IF row1.volume >= 0 /\ 0 >= row2.volume
    THEN FlipOperates(row1, row2, CloseLong, OpenShort)
    ELSE FlipOperates(row1, row2, CloseShort, OpenLong)

\* the list operates of a non-empty dfs
Operates(rows) ==
    FirstOperates(rows[1])
        \o Concat([i \in 1..Len(rows) - 1 |-> NextOperates(rows[i], rows[i + 1])])

\* a variant of PopIndex: opens.pop(0), first in first out
PopFirst(stack) == 1

\* opens.pop() takes the last element
PopIndex(stack) == Len(stack)

\* a variant of PairReturn: a short pair's return over the close price
PairReturnOverClose(open_op, op) ==
    IF open_op.operate = OpenLong
    THEN Q((op.price - open_op.price) * 10000, open_op.price)
    ELSE Q((open_op.price - op.price) * 10000, op.price)

\* the value inside round(..., 2): basis points, over the open price
PairReturn(open_op, op) ==
    IF open_op.operate = OpenLong
    THEN Q((op.price - open_op.price) * 10000, open_op.price)
    ELSE Q((open_op.price - op.price) * 10000, open_op.price)

\* the dict pair; ret_raw is the value before round(), ret is 盈亏比例
TradePair(symbol, open_op, op) ==
    [symbol |-> symbol,
     direction |-> IF open_op.operate = OpenLong THEN "long" ELSE "short",
     open_dt |-> open_op.dt, close_dt |-> op.dt,
     open_price |-> open_op.price, close_price |-> op.price,
     bars_held |-> op.bar_id - open_op.bar_id + 1,
     events |-> <<open_op.operate, op.operate>>,
     days_held |-> (op.dt - open_op.dt) \div SlotsPerDay,
     ret_raw |-> PairReturn(open_op, op),
     ret |-> RoundHalfEven(PairReturn(open_op, op), 100)]

\* a variant of AppendPair: the new pair is put first
PrependPair(prs, pair) == <<pair>> \o prs

\* pairs.append(pair)
AppendPair(prs, pair) == Append(prs, pair)

\* one pass of the loop "for op in operates" on st = [opens, pairs, raised];
\* it raises on a pop from an empty list and on a division by an open price 0
MatchStep(st, symbol, op) ==
    IF op.operate \in {OpenLong, OpenShort}
    THEN [st EXCEPT !.opens = Append(@, op)]
    ELSE IF st.opens = <<>> THEN [st EXCEPT !.raised = TRUE]
    ELSE LET k == PopIndex(st.opens)
             open_op == st.opens[k]
             rest == [j \in 1..Len(st.opens) - 1 |->
                         IF j < k THEN st.opens[j] ELSE st.opens[j + 1]]
         IN IF open_op.price = 0 THEN [st EXCEPT !.opens = rest, !.raised = TRUE]
            ELSE [opens |-> rest,
                  pairs |-> AppendPair(st.pairs, TradePair(symbol, open_op, op)),
                  raised |-> FALSE]

RECURSIVE MatchAll(_, _, _, _)
MatchAll(st, symbol, ops, i) ==
    IF st.raised \/ i > Len(ops) THEN st
    ELSE MatchAll(MatchStep(st, symbol, ops[i]), symbol, ops, i + 1)

\* get_symbol_pairs as one call: [pairs, raised]
GetSymbolPairs(table, symbol) ==
    MatchAll([opens |-> <<>>, pairs |-> <<>>, raised |-> FALSE], symbol,
             Operates(PairRows(table, symbol)), 1)

----------------------------------------------------------------------------
(* WeightBacktest.get_symbol_daily *)

FeeNum == 1
FeeDen == 5000

\* fee_rate: kwargs.get("fee_rate", 0.0002)
FeeRate == Q(FeeNum, FeeDen)

\* np.where(weight > 0, weight, 0)
LongWeight(w) == IF w > 0 THEN w ELSE 0

\* a variant of ShortWeight: the size of the short position, without its sign
ShortWeightUnsigned(w) == IF w < 0 THEN -w ELSE 0

\* np.where(weight < 0, weight, 0)
ShortWeight(w) == IF w < 0 THEN w ELSE 0

\* abs(col.shift(1) - col) at row i: shift(1) leaves the first row without a value
ShiftedDiff(prev, cur, i) ==
    IF i = 1 THEN NaN ELSE QAbs(QSub(WeightOf(prev), WeightOf(cur)))

\* row i of dfs (lines 377-396); g holds the symbol's rows in table order
DailyBar(g, i) ==
    LET w == g[i].weight
        pw == IF i = 1 THEN 0 ELSE g[i - 1].weight
        n1b == N1b(g, i)
        edge == QMul(WeightOf(w), n1b)
        turnover == ShiftedDiff(pw, w, i)
        cost == QMul(turnover, FeeRate)
        long_edge == QMul(WeightOf(LongWeight(w)), n1b)
        short_edge == QMul(WeightOf(ShortWeight(w)), n1b)
        long_turnover == ShiftedDiff(LongWeight(pw), LongWeight(w), i)
        short_turnover == ShiftedDiff(ShortWeight(pw), ShortWeight(w), i)
        long_cost == QMul(long_turnover, FeeRate)
        short_cost == QMul(short_turnover, FeeRate)
    IN [dt |-> g[i].dt, date |-> DateOf(g[i].dt), weight |-> w,
        n1b |-> n1b, edge |-> edge, turnover |-> turnover, cost |-> cost,
        return |-> QSub(edge, cost),
        long_edge |-> long_edge, short_edge |-> short_edge,
        long_turnover |-> long_turnover, short_turnover |-> short_turnover,
        long_cost |-> long_cost, short_cost |-> short_cost,
        long_return |-> QSub(long_edge, long_cost),
        short_return |-> QSub(short_edge, short_cost)]

DailyBars(table, symbol) ==
    LET g == SymbolRows(table, symbol)
    IN [i \in 1..Len(g) |-> DailyBar(g, i)]

\* groupby(date).agg("sum") of one column: the sum of the date's values that
\* are not NaN (0 when there is none)
RECURSIVE SumOfDate(_, _, _, _)
SumOfDate(bars, col, date, i) ==
    IF i > Len(bars) THEN QInt(0)
    ELSE LET rest == SumOfDate(bars, col, date, i + 1)
         IN IF bars[i].date = date /\ ~IsNaN(bars[i][col])
            THEN QAdd(bars[i][col], rest) ELSE rest

\* the keys of a groupby, ascending
RECURSIVE SortedInts(_)
SortedInts(S) ==
    IF S = {} THEN <<>>
    ELSE LET m == CHOOSE x \in S : \A y \in S : x <= y
         IN <<m>> \o SortedInts(S \ {m})

\* lines 398-440: one record per date, dates ascending
DailyTable(bars, symbol) ==
    LET dates == SortedInts({bars[i].date : i \in 1..Len(bars)})
    IN [k \in 1..Len(dates) |->
          [date |-> dates[k], symbol |-> symbol,
           edge |-> SumOfDate(bars, "edge", dates[k], 1),
           return |-> SumOfDate(bars, "return", dates[k], 1),
           cost |-> SumOfDate(bars, "cost", dates[k], 1),
           n1b |-> SumOfDate(bars, "n1b", dates[k], 1),
           turnover |-> SumOfDate(bars, "turnover", dates[k], 1),
           long_edge |-> SumOfDate(bars, "long_edge", dates[k], 1),
           long_cost |-> SumOfDate(bars, "long_cost", dates[k], 1),
           long_return |-> SumOfDate(bars, "long_return", dates[k], 1),
           long_turnover |-> SumOfDate(bars, "long_turnover", dates[k], 1),
           short_edge |-> SumOfDate(bars, "short_edge", dates[k], 1),
           short_cost |-> SumOfDate(bars, "short_cost", dates[k], 1),
           short_return |-> SumOfDate(bars, "short_return", dates[k], 1),
           short_turnover |-> SumOfDate(bars, "short_turnover", dates[k], 1)]]

\* get_symbol_daily as one call
GetSymbolDaily(table, symbol) == DailyTable(DailyBars(table, symbol), symbol)

----------------------------------------------------------------------------
(* WeightBacktest.__init__, process_symbol and backtest *)

\* weight.astype("float").round(digits): thousandths to hundredths
RoundWeight(w) ==
    LET r == RoundHalfEven(Q(w, 1000), Pow10(Digits))
    IN r.n * (100 \div r.d)

\* self.dfw after lines 213-221
RoundTable(table) ==
    [i \in 1..Len(table) |-> [table[i] EXCEPT !.weight = RoundWeight(@)]]

\* process_symbol: the pair of tables, or the exception get_symbol_pairs raised
\* (get_symbol_daily raises nothing: pandas divides by zero without raising)
ProcessSymbol(table, symbol) ==
    LET p == GetSymbolPairs(table, symbol)
    IN IF p.raised THEN [raised |-> TRUE, symbol |-> symbol, daily |-> <<>>, pairs |-> <<>>]
       ELSE [raised |-> FALSE, symbol |-> symbol,
             daily |-> GetSymbolDaily(table, symbol), pairs |-> p.pairs]

\* n_jobs = min(n_jobs, cpu_count())
EffectiveJobs(c) == Min2(c.n_jobs, c.cpu_count)

\* ProcessPoolExecutor(n_jobs) with ntasks tasks submitted: the executor starts
\* its n_jobs processes all at once, or one per submitted task while no worker
\* is idle, depending on the interpreter version and the start method
PoolProcesses(max_workers, ntasks) == {max_workers, Min2(max_workers, ntasks)}

\* a variant of StoreResult: a failed symbol is skipped and the loop goes on
StoreResultSkipFailed(results, r) ==
    IF r.raised THEN [raised |-> FALSE, res |-> results]
    ELSE [raised |-> FALSE, res |-> Append(results, r)]

\* the loop "for symbol in sorted(symbols)" on a result r of process_symbol:
\* an exception leaves the loop, a result is stored under its symbol
StoreResult(results, r) ==
    IF r.raised THEN [raised |-> TRUE, res |-> results]
    ELSE [raised |-> FALSE, res |-> Append(results, r)]

\* a variant of NextResult: results are taken as they complete
NextResultAsCompleted(sorted, k, finished) ==
    {finished[i] : i \in 1..Len(finished)} \ {res[i].symbol : i \in 1..Len(res)}

\* pool.map yields the results in the order of its arguments: the k-th result
\* is that of the k-th symbol, once its task has finished
NextResult(sorted, k, finished) ==
    IF \E i \in 1..Len(finished) : finished[i] = sorted[k] THEN {sorted[k]} ELSE {}

\* a variant of LoopExhausted: the loop is left after its first result
LoopExhaustedEarly(k, sorted) == k >= 1

\* the for loop over sorted(symbols), or over pool.map(...), ends when every
\* symbol's result has been taken
LoopExhausted(k, sorted) == k = Len(sorted)

\* the daily table stored for a symbol
DailyOf(results, symbol) ==
    LET ks == {k \in 1..Len(results) : results[k].symbol = symbol}
    IN IF ks = {} THEN <<>> ELSE results[CHOOSE k \in ks : TRUE].daily

\* one cell of the pivot table after fillna(0): the date's return, or 0
PivotValue(results, symbol, date) ==
    LET dl == DailyOf(results, symbol)
        js == {j \in 1..Len(dl) : dl[j].date = date}
    IN IF js = {} THEN QInt(0) ELSE dl[CHOOSE j \in js : TRUE]["return"]

RECURSIVE SumValues(_, _, _, _)
SumValues(results, cols, date, k) ==
    IF k > Len(cols) THEN QInt(0)
    ELSE QAdd(PivotValue(results, cols[k], date), SumValues(results, cols, date, k + 1))

\* a variant of TotalReturn: the mean is taken over the symbols that have a
\* record on the date
TotalReturnSkipMissing(weight_type, results, cols, date) ==
    LET have == {k \in 1..Len(cols) :
                    \E j \in 1..Len(DailyOf(results, cols[k])) :
                        DailyOf(results, cols[k])[j].date = date}
    IN IF weight_type = "ts"
       THEN QMul(SumValues(results, cols, date, 1), Q(1, Cardinality(have)))
       ELSE SumValues(results, cols, date, 1)

\* dret["total"]: the mean (ts) or the sum (cs) over the columns list(res.keys())
TotalReturn(weight_type, results, cols, date) ==
    IF weight_type = "ts"
    THEN QMul(SumValues(results, cols, date, 1), Q(1, Len(cols)))
    ELSE SumValues(results, cols, date, 1)

\* lines 592-605: the pivot table with its total, rounded to 4 decimals
DailyReturnTable(weight_type, results) ==
    LET dailys == Concat([k \in 1..Len(results) |-> results[k].daily])
        dates == SortedInts({dailys[i].date : i \in 1..Len(dailys)})
        cols == [k \in 1..Len(results) |-> results[k].symbol]
    IN [d \in 1..Len(dates) |->
          [date |-> dates[d],
           returns |-> [k \in 1..Len(cols) |->
                           RoundHalfEven(PivotValue(results, cols[k], dates[d]), 10000)],
           total |-> RoundHalfEven(TotalReturn(weight_type, results, cols, dates[d]), 10000)]]

\* lines 608-629, without the external metric functions
Stats(table, dret, nsymbols) ==
    [start |-> dret[1].date, end |-> dret[Len(dret)].date,
     long_rate |-> RoundHalfEven(
         Q(Cardinality({i \in 1..Len(table) : table[i].weight > 0}), Len(table)), 10000),
     short_rate |-> RoundHalfEven(
         Q(Cardinality({i \in 1..Len(table) : table[i].weight < 0}), Len(table)), 10000),
     n_symbols |-> nsymbols]

----------------------------------------------------------------------------
(* get_ensemble_weight *)

\* pd.DataFrame(p.holds) with pos renamed to p.name: no column when holds is empty
HoldsFrame(p) ==
    IF p.holds = <<>> THEN [names |-> <<>>, rows |-> <<>>]
    ELSE [names |-> <<p.name>>,
          rows |-> [i \in 1..Len(p.holds) |->
                       [dt |-> p.holds[i].dt, price |-> p.holds[i].price,
                        vals |-> <<p.holds[i].pos>>]]]

\* dfp["dt"].equals(p_pos["dt"])
DtEquals(frame, holds) ==
    /\ Len(frame.rows) = Len(holds)
    /\ \A i \in 1..Len(holds) : frame.rows[i].dt = holds[i].dt

\* dfp.merge(p_pos[["dt", "pos"]], on="dt", how="left"): every row of dfp with
\* the pos of every row of p_pos that has its dt
MergeLeft(frame, holds) ==
    Concat([i \in 1..Len(frame.rows) |->
        LET m == SelectSeq(holds, LAMBDA h : h.dt = frame.rows[i].dt)
        IN [j \in 1..Len(m) |-> [frame.rows[i] EXCEPT !.vals = Append(@, m[j].pos)]]])

\* one pass of the loop over trader.positions (lines 62-69)
AddPosition(frame, p) ==
    IF frame.rows = <<>>
    THEN [raised |-> FALSE, frame |-> HoldsFrame(p)]
    ELSE IF p.holds = <<>>
    THEN [raised |-> TRUE, frame |-> frame]         \* KeyError: no column dt
    ELSE IF ~DtEquals(frame, p.holds)
    THEN [raised |-> TRUE, frame |-> frame]         \* AssertionError
    ELSE [raised |-> FALSE,
          frame |-> [names |-> Append(frame.names, p.name),
                     rows |-> MergeLeft(frame, p.holds)]]

RECURSIVE SumSeq(_)
SumSeq(vals) == IF vals = <<>> THEN 0 ELSE Head(vals) + SumSeq(Tail(vals))

RECURSIVE MaxSeq(_)
MaxSeq(vals) ==
    IF Len(vals) = 1 THEN vals[1]
    ELSE IF Head(vals) >= MaxSeq(Tail(vals)) THEN Head(vals) ELSE MaxSeq(Tail(vals))

\* a variant of Vote: the sign of the first position that is not flat
RECURSIVE VoteFirst(_)
VoteFirst(vals) ==
    IF vals = <<>> THEN 0
    ELSE IF Head(vals) # 0 THEN Sign(Head(vals)) ELSE VoteFirst(Tail(vals))

\* np.sign(np.sum(x))
Vote(vals) == Sign(SumSeq(vals))

Methods == {"mean", "max", "min", "vote"}

\* the weight of one row of dfp[pos_cols] (lines 75-82)
RowWeight(method, vals) ==
    IF method = "mean" THEN Q(SumSeq(vals), Len(vals))
    ELSE IF method = "max" THEN QInt(MaxSeq(vals))
    ELSE IF method = "min" THEN QInt(-MaxSeq([i \in 1..Len(vals) |-> -vals[i]]))
    ELSE QInt(Vote(vals))

\* lines 71-89 on the frame left by the loop: ValueError for an unknown method,
\* KeyError for a frame without columns, otherwise dt, symbol, weight, price
WeightTable(symbol, method, frame) ==
    IF method \notin Methods \/ frame.rows = <<>>
    THEN [raised |-> TRUE, out |-> <<>>]
    ELSE [raised |-> FALSE,
          out |-> [i \in 1..Len(frame.rows) |->
                      [dt |-> frame.rows[i].dt, symbol |-> symbol,
                       weight |-> RowWeight(method, frame.rows[i].vals),
                       price |-> frame.rows[i].price]]]

----------------------------------------------------------------------------
(* Inputs and the idle values of the variables a specification does not use *)

\* longest series of one symbol
MaxBars == 4

\* a series of one symbol on consecutive timestamps: row i = <<weight, price>>
MkRows(symbol, ser) ==
    [i \in 1..Len(ser) |->
        [dt |-> i, symbol |-> symbol, weight |-> ser[i][1], price |-> ser[i][2]]]

IdleSL == slOut = <<>>
IdlePairs == operates = <<>> /\ opIdx = 0 /\ opens = <<>> /\ pairs = <<>>
IdleDaily == dfs = <<>> /\ daily = <<>>
NoPool == [idx |-> 0, processes |-> 0, queue |-> <<>>, running |-> {}, finished |-> <<>>]
NoInstance == [dailys |-> <<>>, results |-> <<>>, set |-> FALSE]
NoFrame == [names |-> <<>>, rows |-> <<>>]
IdleEns ==
    /\ trader = [symbol |-> "-", positions |-> <<>>, method |-> "-"]
    /\ dfp = [k |-> 0, frame |-> NoFrame, out |-> <<>>]
\* no generator is constructed, no call was made
IdleBG ==
    /\ bg = [base_freq |-> "-", max_count |-> 0, symbol |-> "-", end_dt |-> -1,
             bars |-> <<>>, raised |-> FALSE]
    /\ fed = <<>>
    /\ call = [n |-> 0, op |-> "-", freq |-> "-", bar |-> <<>>, before |-> <<>>,
               outcome |-> "-", loaded |-> {}, prev |-> <<>>]
IdleBT ==
    /\ input = <<>>
    /\ cfg = [weight_type |-> "ts", n_jobs |-> 1, cpu_count |-> 1]
    /\ pool = NoPool
    /\ res = <<>>
    /\ inst = NoInstance

----------------------------------------------------------------------------
(* Specification SpecSL: stoploss_by_direction applied to a weight table *)

SLWeights == {-100, 0, 100}
SLPrices == {64, 80, 100}

\* assert dfg["dt"].is_monotonic_increasing, for every group
DtMonotonic(table) ==
    \A s \in SymbolsOf(table) :
        LET g == SymbolRows(table, s)
        IN \A i \in 1..Len(g) - 1 : g[i].dt <= g[i + 1].dt

InitSL ==
    /\ pc = "start"
    /\ \E n \in 1..MaxBars : \E ser \in [1..n -> SLWeights \X SLPrices] :
           dfw = MkRows("A", ser)
    /\ sym = "-"
    /\ IdleSL /\ IdlePairs /\ IdleDaily /\ IdleBT /\ IdleEns /\ IdleBG

StoplossByDirection ==
    /\ pc = "start"
    /\ IF DtMonotonic(dfw)
       THEN pc' = "done" /\ slOut' = StoplossTable(dfw, Stoploss)
       ELSE pc' = "raised" /\ slOut' = slOut
    /\ UNCHANGED <<ensVars, bgVars, dfw, sym, pairVars, dailyVars, btVars>>

NextSL == StoplossByDirection

SpecSL == InitSL /\ [][NextSL]_vars

----------------------------------------------------------------------------
(* Specifications SpecPairs and SpecPairsWhole: one call of get_symbol_pairs, *)
(* its matching loop taken one event at a time                              *)

\* the weights of SpecPairs, in hundredths: up to two unit lots either way
PairWeights == {-2, -1, 0, 1, 2}

PricePaths == {"up", "down", "zig"}

\* the price of bar i on a path: 100, 101, 102, ... / 105, 104, 103, ... /
\* 100, 102, 101, 103, ...
PriceAt(path, i) ==
    IF path = "up" THEN 99 + i
    ELSE IF path = "down" THEN 106 - i
    ELSE IF i % 2 = 1 THEN 100 + (i \div 2) ELSE 101 + (i \div 2)

PairInit(W) ==
    /\ pc = "start"
    /\ \E n \in 1..MaxBars : \E ws \in [1..n -> W] : \E path \in PricePaths :
           dfw = MkRows("A", [i \in 1..n |-> <<ws[i], PriceAt(path, i)>>])
    /\ sym = "A"
    /\ IdleSL /\ IdlePairs /\ IdleDaily /\ IdleBT /\ IdleEns /\ IdleBG

InitPairs == PairInit(PairWeights)

\* weights of whole units: 0, 1.0 and -1.0
InitPairsWhole == PairInit({-100, 0, 100})

\* lines 469-521: the events of the symbol's rows
BuildOperates ==
    /\ pc = "start"
    /\ operates' = Operates(PairRows(dfw, sym))
    /\ pc' = "match"
    /\ UNCHANGED <<ensVars, bgVars, dfw, sym, slVars, opIdx, opens, pairs, dailyVars, btVars>>

MatchState == [opens |-> opens, pairs |-> pairs, raised |-> FALSE]

Matched(op) ==
    LET st == MatchStep(MatchState, sym, op)
    IN /\ opens' = st.opens
       /\ pairs' = st.pairs
       /\ opIdx' = opIdx + 1
       /\ pc' = IF st.raised THEN "raised" ELSE "match"
       /\ UNCHANGED <<ensVars, bgVars, dfw, sym, slVars, operates, dailyVars, btVars>>

\* the loop body for an open event
MatchOpen ==
    /\ pc = "match" /\ opIdx < Len(operates)
    /\ operates[opIdx + 1].operate \in {OpenLong, OpenShort}
    /\ Matched(operates[opIdx + 1])

\* the loop body for a close event
MatchClose ==
    /\ pc = "match" /\ opIdx < Len(operates)
    /\ operates[opIdx + 1].operate \in {CloseLong, CloseShort}
    /\ Matched(operates[opIdx + 1])

\* the loop is over: df_pairs is returned
ReturnPairs ==
    /\ pc = "match" /\ opIdx = Len(operates)
    /\ pc' = "done"
    /\ UNCHANGED <<ensVars, bgVars, dfw, sym, slVars, pairVars, dailyVars, btVars>>

NextPairs == BuildOperates \/ MatchOpen \/ MatchClose \/ ReturnPairs

SpecPairs == InitPairs /\ [][NextPairs]_vars

SpecPairsWhole == InitPairsWhole /\ [][NextPairs]_vars

----------------------------------------------------------------------------
(* Specification SpecDaily: one call of get_symbol_daily *)

DailyWeights == {-100, -50, 0, 100}
DailyPaths == {"zig", "zag"}

\* the price of bar i: 100, 125, 100, 80, ... / 100, 80, 100, 125, ...
DailyPriceAt(path, i) ==
    IF i % 2 = 1 THEN 100
    ELSE IF (path = "zig") = (i % 4 = 2) THEN 125 ELSE 80

\* timestamps from the gaps between consecutive bars
RECURSIVE DtFrom(_, _)
DtFrom(first, gaps) ==
    IF gaps = <<>> THEN <<first>>
    ELSE <<first>> \o DtFrom(first + Head(gaps), Tail(gaps))

\* strictly increasing timestamps: the next bar is one slot or one day later
DtSeries(n) == {DtFrom(0, gaps) : gaps \in [1..n - 1 -> {1, SlotsPerDay}]}

MkTimedRows(symbol, ws, ps, dts) ==
    [i \in 1..Len(ws) |-> [dt |-> dts[i], symbol |-> symbol, weight |-> ws[i], price |-> ps[i]]]

InitDaily ==
    /\ pc = "start"
    /\ \E n \in 1..MaxBars : \E ws \in [1..n -> DailyWeights] :
       \E path \in DailyPaths : \E dts \in DtSeries(n) :
           dfw = MkTimedRows("A", ws, [i \in 1..n |-> DailyPriceAt(path, i)], dts)
    /\ sym = "A"
    /\ IdleSL /\ IdlePairs /\ IdleDaily /\ IdleBT /\ IdleEns /\ IdleBG

\* lines 377-396: the per-bar columns
ComputeBars ==
    /\ pc = "start"
    /\ dfs' = DailyBars(dfw, sym)
    /\ pc' = "bars"
    /\ UNCHANGED <<ensVars, bgVars, dfw, sym, slVars, pairVars, daily, btVars>>

\* lines 398-440: the sums by date
SumByDate ==
    /\ pc = "bars"
    /\ daily' = DailyTable(dfs, sym)
    /\ pc' = "done"
    /\ UNCHANGED <<ensVars, bgVars, dfw, sym, slVars, pairVars, dfs, btVars>>

NextDaily == ComputeBars \/ SumByDate

SpecDaily == InitDaily /\ [][NextDaily]_vars

----------------------------------------------------------------------------
(* Specification SpecBT: WeightBacktest(dfw, weight_type=, n_jobs=), from the *)
(* constructor to self.results, sequentially or over the process pool        *)

\* largest n_jobs asked for
MaxJobs == 3

\* values of cpu_count()
CpuCounts == {1, 4}

\* the series a symbol can have: weights in thousandths, prices, the time of
\* the first bar and the gap between bars
BTSeries ==
    { \* one bar every other day
      [ws |-> <<45, 40, 0>>, ps |-> <<100, 100, 125>>, first |-> 0, gap |-> 2 * SlotsPerDay],
      [ws |-> <<100, 100, 100, 0>>, ps |-> <<100, 125, 100, 80>>,
       first |-> 0, gap |-> SlotsPerDay],
      \* starts two days later, bars one slot apart
      [ws |-> <<-100, -55, 50, 0>>, ps |-> <<100, 80, 100, 125>>,
       first |-> 2 * SlotsPerDay, gap |-> 1],
      \* opened at price 0 and closed: the pair's return divides by zero
      [ws |-> <<100, 0>>, ps |-> <<0, 100>>, first |-> 0, gap |-> SlotsPerDay] }

SeriesRows(symbol, ser) ==
    [i \in 1..Len(ser.ws) |->
        [dt |-> ser.first + (i - 1) * ser.gap, symbol |-> symbol,
         weight |-> ser.ws[i], price |-> ser.ps[i], nulls |-> {}]]

\* the tables of n symbols: one block of rows per symbol, blocks in ascending or
\* descending order
BTTablesOf(n, orders) ==
    { Concat([k \in 1..n |->
          LET j == IF rev THEN n + 1 - k ELSE k
          IN SeriesRows(SymbolOrder[j], pick[j])]) :
      pick \in [1..n -> BTSeries], rev \in orders }

\* tables of all the symbols come in descending order only
BTTables ==
    UNION { BTTablesOf(n, IF n = Len(SymbolOrder) THEN {TRUE} ELSE BOOLEAN) :
            n \in 1..Len(SymbolOrder) }

\* the tables of one or two symbols in ascending order
SmallTables == BTTablesOf(1, {FALSE}) \cup BTTablesOf(2, {FALSE})

\* the columns of the weight table; nulls names the null fields of a row
Fields == {"dt", "symbol", "weight", "price"}

\* tables of one or two symbols with one null field in one row
NullTables ==
    UNION { { [t EXCEPT ![i].nulls = {f}] : i \in 1..Len(t), f \in Fields } :
            t \in SmallTables }

\* rows i and i + 1 exchanged
SwapRows(t, i) == [t EXCEPT ![i] = t[i + 1], ![i + 1] = t[i]]

\* tables of one or two symbols with two rows of one symbol out of time order
UnsortedTables ==
    UNION { { SwapRows(t, i) :
                i \in {j \in 1..Len(t) - 1 : t[j].symbol = t[j + 1].symbol} } :
            t \in SmallTables }

\* a variant of HasNull: only the weight column is looked at
HasNullWeight(table) == \E i \in 1..Len(table) : "weight" \in table[i].nulls

\* self.dfw.isnull().sum().sum() > 0
HasNull(table) == \E i \in 1..Len(table) : table[i].nulls # {}

InitBT ==
    /\ pc = "new"
    /\ input \in BTTables \cup NullTables \cup UnsortedTables
    /\ cfg \in [weight_type : {"ts", "cs"}, n_jobs : 1..MaxJobs, cpu_count : CpuCounts]
    /\ dfw = <<>> /\ sym = "-"
    /\ pool = NoPool /\ res = <<>> /\ inst = NoInstance
    /\ IdleSL /\ IdlePairs /\ IdleDaily /\ IdleEns /\ IdleBG

\* self.symbols, sorted
Symbols == SortedSymbols(SymbolsOf(dfw))

\* lines 212-224: a null field raises ValueError, otherwise the copy with
\* rounded weights
Construct ==
    /\ pc = "new"
    /\ IF HasNull(input)
       THEN pc' = "invalid" /\ dfw' = dfw
       ELSE pc' = "constructed" /\ dfw' = RoundTable(input)
    /\ UNCHANGED <<ensVars, bgVars, sym, slVars, pairVars, dailyVars, input, cfg, pool, res, inst>>

\* lines 575-586: the sequential loop, or the pool with every task submitted
StartBacktest ==
    /\ pc = "constructed"
    /\ cfg' = [cfg EXCEPT !.n_jobs = EffectiveJobs(cfg)]
    /\ IF EffectiveJobs(cfg) <= 1
       THEN pc' = "seq" /\ pool' = pool
       ELSE /\ pc' = "pool"
            /\ \E n \in PoolProcesses(EffectiveJobs(cfg), Len(Symbols)) :
                   pool' = [pool EXCEPT !.queue = Symbols, !.processes = n]
    /\ UNCHANGED <<ensVars, bgVars, dfw, sym, slVars, pairVars, dailyVars, input, res, inst>>

\* lines 581-582: one pass of the sequential loop
SeqProcess ==
    /\ pc = "seq" /\ pool.idx < Len(Symbols)
    /\ LET st == StoreResult(res, ProcessSymbol(dfw, Symbols[pool.idx + 1]))
       IN /\ res' = st.res
          /\ pool' = [pool EXCEPT !.idx = @ + 1]
          /\ pc' = IF st.raised THEN "raised" ELSE "seq"
    /\ UNCHANGED <<ensVars, bgVars, dfw, sym, slVars, pairVars, dailyVars, input, cfg, inst>>

\* a worker process takes the next pending task
WorkerTake ==
    /\ pc \in {"pool", "pool_failed"}
    /\ pool.queue # <<>>
    /\ Cardinality(pool.running) < pool.processes
    /\ pool' = [pool EXCEPT !.queue = Tail(@), !.running = @ \cup {Head(pool.queue)}]
    /\ UNCHANGED <<ensVars, bgVars, pc, dfw, sym, slVars, pairVars, dailyVars, input, cfg, res, inst>>

\* a worker process finishes its task, in any order
WorkerFinish ==
    /\ pc \in {"pool", "pool_failed"}
    /\ \E s \in pool.running :
           pool' = [pool EXCEPT !.running = @ \ {s}, !.finished = Append(@, s)]
    /\ UNCHANGED <<ensVars, bgVars, pc, dfw, sym, slVars, pairVars, dailyVars, input, cfg, res, inst>>

\* lines 585-588: the loop takes the next result of pool.map; a task's exception
\* is raised here, and the tasks not yet handed to a worker are cancelled
Collect ==
    /\ pc = "pool" /\ pool.idx < Len(Symbols)
    /\ \E s \in NextResult(Symbols, pool.idx + 1, pool.finished) :
           LET st == StoreResult(res, ProcessSymbol(dfw, s))
           IN /\ res' = st.res
              /\ IF st.raised
                 THEN /\ pc' = "pool_failed"
                      /\ \E k \in 0..Len(pool.queue) :
                             pool' = [pool EXCEPT !.idx = @ + 1,
                                                  !.queue = SubSeq(pool.queue, 1, k)]
                 ELSE /\ pc' = "pool"
                      /\ pool' = [pool EXCEPT !.idx = @ + 1]
    /\ UNCHANGED <<ensVars, bgVars, dfw, sym, slVars, pairVars, dailyVars, input, cfg, inst>>

\* the with block is left on an exception: the pool is shut down, then the
\* exception leaves backtest and the constructor
PoolAbort ==
    /\ pc = "pool_failed"
    /\ pool.running = {} /\ pool.queue = <<>>
    /\ pc' = "raised"
    /\ UNCHANGED <<ensVars, bgVars, dfw, sym, slVars, pairVars, dailyVars, btVars>>

\* the loop is over (and the pool shut down)
LoopEnd ==
    /\ pc \in {"seq", "pool"}
    /\ LoopExhausted(pool.idx, Symbols)
    /\ pc' = "merge"
    /\ UNCHANGED <<ensVars, bgVars, dfw, sym, slVars, pairVars, dailyVars, btVars>>

\* lines 590-629: self._dailys, the pivot table, the statistics
Aggregate ==
    /\ pc = "merge"
    /\ LET dret == DailyReturnTable(cfg.weight_type, res)
       IN /\ inst' = [inst EXCEPT !.dailys = Concat([k \in 1..Len(res) |-> res[k].daily]),
                                  !.results =
                                      [symbols |-> res,
                                       daily_return |-> dret,
                                       pairs |-> Concat([k \in 1..Len(res) |-> res[k].pairs]),
                                       stats |-> Stats(dfw, dret, Len(Symbols))]]
    /\ pc' = "return"
    /\ UNCHANGED <<ensVars, bgVars, dfw, sym, slVars, pairVars, dailyVars, input, cfg, pool, res>>

\* line 225: self.results = the returned mapping
SetResults ==
    /\ pc = "return"
    /\ inst' = [inst EXCEPT !.set = TRUE]
    /\ pc' = "done"
    /\ UNCHANGED <<ensVars, bgVars, dfw, sym, slVars, pairVars, dailyVars, input, cfg, pool, res>>

NextBT ==
    \/ Construct \/ StartBacktest \/ SeqProcess
    \/ WorkerTake \/ WorkerFinish \/ Collect \/ PoolAbort
    \/ LoopEnd \/ Aggregate \/ SetResults

SpecBT == InitBT /\ [][NextBT]_vars

----------------------------------------------------------------------------
(* Specification SpecIndep: stoploss_by_direction on a table of several       *)
(* symbols, then process_symbol for one of them                               *)

\* series of <<weight in hundredths, price>>: a long and a short that breach
\* the stop, a flip, a late open
IndepSeries ==
    { << <<10, 100>>, <<10, 80>>, <<10, 64>>, <<0, 64>> >>,
      << <<-10, 64>>, <<-10, 80>>, <<-10, 100>>, <<10, 100>> >>,
      << <<5, 100>>, <<-5, 125>>, <<0, 100>> >>,
      << <<0, 100>>, <<10, 125>> >> }

\* the rows of a table in time order, the symbols of one timestamp in order
RECURSIVE Interleaved(_, _)
Interleaved(table, dt) ==
    IF \A i \in 1..Len(table) : table[i].dt < dt THEN <<>>
    ELSE SelectSeq(table, LAMBDA r : r.dt = dt) \o Interleaved(table, dt + 1)

IndepTables ==
    UNION { { LET blocks == Concat([k \in 1..n |-> MkRows(SymbolOrder[k], pick[k])])
              IN IF mixed THEN Interleaved(blocks, 1) ELSE blocks :
              pick \in [1..n -> IndepSeries], mixed \in BOOLEAN }
            : n \in 2..Len(SymbolOrder) }

InitIndep ==
    /\ pc = "start"
    /\ dfw \in IndepTables
    /\ sym \in SymbolsOf(dfw)
    /\ IdleSL /\ IdlePairs /\ IdleDaily /\ IdleBT /\ IdleEns /\ IdleBG

\* stoploss_by_direction(dfw)
IndepStoploss ==
    /\ pc = "start"
    /\ IF DtMonotonic(dfw)
       THEN pc' = "stopped" /\ slOut' = StoplossTable(dfw, Stoploss)
       ELSE pc' = "raised" /\ slOut' = slOut
    /\ UNCHANGED <<ensVars, bgVars, dfw, sym, pairVars, dailyVars, btVars>>

\* process_symbol(sym) of the instance holding dfw
IndepProcess ==
    /\ pc = "stopped"
    /\ res' = <<ProcessSymbol(dfw, sym)>>
    /\ pc' = "done"
    /\ UNCHANGED <<ensVars, bgVars, dfw, sym, slVars, pairVars, dailyVars, input, cfg, pool, inst>>

NextIndep == IndepStoploss \/ IndepProcess

SpecIndep == InitIndep /\ [][NextIndep]_vars

----------------------------------------------------------------------------
(* Specification SpecEns: get_ensemble_weight(trader, method), its loop over  *)
(* the positions taken one position at a time                                *)

PositionNames == <<"A", "B", "C">>

\* the timestamp axes of a hold series, and the price at a timestamp
HoldAxes == {<<>>, <<1, 2>>, <<1, 3>>}
HoldPrice(dt) == 100 + dt

\* the hold series a position can have: every pos in -1..1 on the axis 1, 2;
\* one series on the axis 1, 3; the empty series
HoldSeries ==
    UNION { { [i \in 1..Len(axis) |->
                  [dt |-> axis[i], pos |-> ps[i], price |-> HoldPrice(axis[i])]] :
              ps \in IF axis = <<1, 2>> THEN [1..2 -> -1..1]
                     ELSE IF axis = <<>> THEN {<<>>} ELSE {<<1, -1>>} }
            : axis \in HoldAxes }

InitEns ==
    /\ pc = "loop"
    /\ \E n \in 1..Len(PositionNames) : \E hs \in [1..n -> HoldSeries] :
       \E method \in Methods \cup {"median"} :
           trader = [symbol |-> "A",
                     positions |-> [k \in 1..n |-> [name |-> PositionNames[k], holds |-> hs[k]]],
                     method |-> method]
    /\ dfp = [k |-> 0, frame |-> NoFrame, out |-> <<>>]
    /\ dfw = <<>> /\ sym = "-"
    /\ IdleSL /\ IdlePairs /\ IdleDaily /\ IdleBT /\ IdleBG

\* lines 62-69: the next position is merged into dfp, or the call raises
EnsAddPosition ==
    /\ pc = "loop" /\ dfp.k < Len(trader.positions)
    /\ LET st == AddPosition(dfp.frame, trader.positions[dfp.k + 1])
       IN /\ dfp' = [dfp EXCEPT !.k = @ + 1, !.frame = st.frame]
          /\ pc' = IF st.raised THEN "raised" ELSE "loop"
    /\ UNCHANGED <<trader, bgVars, dfw, sym, slVars, pairVars, dailyVars, btVars>>

\* lines 71-89: the weight column and the returned table
EnsWeight ==
    /\ pc = "loop" /\ dfp.k = Len(trader.positions)
    /\ LET st == WeightTable(trader.symbol, trader.method, dfp.frame)
       IN /\ dfp' = [dfp EXCEPT !.out = st.out]
          /\ pc' = IF st.raised THEN "raised" ELSE "done"
    /\ UNCHANGED <<trader, bgVars, dfw, sym, slVars, pairVars, dailyVars, btVars>>

NextEns == EnsAddPosition \/ EnsWeight

SpecEns == InitEns /\ [][NextEns]_vars

----------------------------------------------------------------------------
(* Claims on stoploss_by_direction *)

\* rows i..j of the returned table lie in one order segment
SameSegment(rows, i, j) ==
    \A m \in i..j : rows[m].symbol = rows[i].symbol /\ rows[m].direction = rows[i].direction

Breached(rows, i) == QLt(rows[i].min_hold_returns, QNeg(Stoploss))

\* k is the first bar of its segment with min_hold_returns < -stoploss
FirstBreach(rows, k) ==
    /\ Breached(rows, k)
    /\ \A j \in 1..k - 1 : SameSegment(rows, j, k) => ~Breached(rows, j)

\* C1: in a segment of non-zero raw weight whose first breach is at bar k
\* (any bar of the segment, its first bar included), the returned weight is
\* the raw weight up to and including k and 0 on every later bar of the segment.
C1_ZeroAfterFirstBreach ==
    pc = "done" =>
        \A k \in 1..Len(slOut) :
            (slOut[k].raw_weight # 0 /\ FirstBreach(slOut, k)) =>
                \A i \in 1..Len(slOut) :
                    /\ (i <= k /\ SameSegment(slOut, i, k)) =>
                           slOut[i].weight = slOut[i].raw_weight
                    /\ (i > k /\ SameSegment(slOut, k, i)) => slOut[i].weight = 0

\* what the code does: the same, for a first breach that is not on the
\* segment's first bar
SL_ZeroAfterLaterBreach ==
    pc = "done" =>
        \A k \in 2..Len(slOut) :
            (slOut[k].raw_weight # 0 /\ FirstBreach(slOut, k) /\ SameSegment(slOut, k - 1, k)) =>
                \A i \in 1..Len(slOut) :
                    /\ (i <= k /\ SameSegment(slOut, i, k)) =>
                           slOut[i].weight = slOut[i].raw_weight
                    /\ (i > k /\ SameSegment(slOut, k, i)) => slOut[i].weight = 0

\* rows j..i have raw weights of one sign
RawRun(rows, j, i) ==
    \A m \in j..i : Sign(rows[m].raw_weight) = Sign(rows[i].raw_weight)

\* the first bar of the maximal run of one sign that holds bar i
RunStart(rows, i) ==
    CHOOSE j \in 1..i : RawRun(rows, j, i) /\ (j = 1 \/ ~RawRun(rows, j - 1, i))

\* raw weight times the forward return of bar j (j is not the last bar)
BarReturn(rows, j) ==
    QMul(QSub(Q(rows[j + 1].price, rows[j].price), QInt(1)), Q(rows[j].raw_weight, 100))

\* the sum of the bar returns of bars j..i, from zero
RECURSIVE RunSum(_, _, _)
RunSum(rows, j, i) ==
    IF j > i THEN QInt(0) ELSE QAdd(BarReturn(rows, j), RunSum(rows, j + 1, i))

\* C19: order_id is 0 on the first bar, constant within a maximal run of bars
\* with the same sign of raw weight and one more at every change of sign;
\* hold_returns is the sum of the bar returns from the first bar of the run, and
\* min_hold_returns the least of these sums within the run (nothing is carried
\* over from an earlier run); the first bar of every run keeps its raw weight.
C19_SegmentReset ==
    pc = "done" =>
        \A i \in 1..Len(slOut) :
            LET a == RunStart(slOut, i)
            IN /\ slOut[i].order_id =
                      IF i = 1 THEN 0
                      ELSE slOut[i - 1].order_id + (IF a = i THEN 1 ELSE 0)
               /\ i < Len(slOut) =>
                      /\ slOut[i].hold_returns = RunSum(slOut, a, i)
                      /\ \E j \in a..i : slOut[i].min_hold_returns = RunSum(slOut, a, j)
                      /\ \A j \in a..i :
                             ~QLt(RunSum(slOut, a, j), slOut[i].min_hold_returns)
               /\ a = i => slOut[i].weight = slOut[i].raw_weight

\* a run of two bars that breached the stop, followed by a run of the other
\* sign whose first bar keeps its weight and starts again from its own return
C19_Witness ==
    /\ pc = "done" /\ Len(slOut) = 4
    /\ slOut[1].order_id = slOut[2].order_id
    /\ QLt(slOut[2].min_hold_returns, QNeg(Stoploss))
    /\ slOut[3].order_id = slOut[2].order_id + 1
    /\ slOut[3].raw_weight * slOut[2].raw_weight < 0
    /\ slOut[3].weight = slOut[3].raw_weight
    /\ slOut[3].hold_returns = BarReturn(slOut, 3)
    /\ slOut[3].hold_returns.n # 0

\* C20: every returned row has the dt, symbol and price of its input row and
\* the input weight as raw_weight; its weight is the raw weight or 0; the
\* caller's table is as it was; and within a run hold_returns grows by raw
\* weight times forward return on every bar, the zeroed ones included.
C20_FrameOfStoploss ==
    pc = "done" =>
        /\ Len(slOut) = Len(dfw)
        /\ \A i \in 1..Len(slOut) :
               /\ slOut[i].dt = dfw[i].dt /\ slOut[i].symbol = dfw[i].symbol
               /\ slOut[i].price = dfw[i].price
               /\ slOut[i].raw_weight = dfw[i].weight
               /\ slOut[i].weight \in {slOut[i].raw_weight, 0}
               /\ DOMAIN dfw[i] = {"dt", "symbol", "weight", "price"}
               /\ (1 < i /\ i < Len(slOut) /\ RunStart(slOut, i) < i) =>
                      slOut[i].hold_returns =
                          QAdd(slOut[i - 1].hold_returns, BarReturn(slOut, i))

\* a bar zeroed by the stop whose raw weight still moves hold_returns
C20_Witness ==
    /\ pc = "done"
    /\ \E i \in 2..Len(slOut) - 1 :
           /\ slOut[i].weight = 0 /\ slOut[i].raw_weight # 0
           /\ slOut[i].hold_returns # slOut[i - 1].hold_returns
           /\ slOut[i].order_id = slOut[i - 1].order_id

----------------------------------------------------------------------------
(* Claims on get_symbol_pairs *)

IsOpenOp(o) == o.operate \in {OpenLong, OpenShort}

\* the rows of the running call
CallRows == PairRows(dfw, sym)

\* the events are built
PairsStarted == pc \in {"match", "done"} /\ sym # "-"

\* position in operates of the m-th close event
CloseIdx(m) ==
    CHOOSE k \in 1..Len(operates) :
        /\ ~IsOpenOp(operates[k])
        /\ Cardinality({j \in 1..k : ~IsOpenOp(operates[j])}) = m

\* unit lots opened on bar b and still unmatched when the m-th close is processed
UnmatchedAt(b, m) ==
    Cardinality({j \in 1..CloseIdx(m) - 1 : IsOpenOp(operates[j]) /\ operates[j].bar_id = b})
        - Cardinality({j \in 1..m - 1 : pairs[j].open_dt = CallRows[b].dt})

\* the latest bar that has an unmatched open when the m-th close is processed
LatestUnmatched(m) ==
    CHOOSE b \in 1..Len(CallRows) :
        /\ UnmatchedAt(b, m) > 0
        /\ \A c \in b + 1..Len(CallRows) : UnmatchedAt(c, m) = 0

\* C2: every close is paired with the most recently emitted open that is still
\* unmatched (last in, first out, over the whole timeline): the m-th pair's open
\* time and price are those of the latest bar with an unmatched open lot.
C2_ClosePopsLatestOpen ==
    PairsStarted =>
        \A m \in 1..Len(pairs) :
            /\ \E b \in 1..Len(CallRows) : UnmatchedAt(b, m) > 0
            /\ pairs[m].open_dt = CallRows[LatestUnmatched(m)].dt
            /\ pairs[m].open_price = CallRows[LatestUnmatched(m)].price
            /\ pairs[m].close_dt = operates[CloseIdx(m)].dt

\* two units opened on two bars at different prices, closed on two later bars:
\* the pair closed first holds the later open
C2_Witness ==
    /\ pc = "done" /\ sym # "-" /\ Len(pairs) = 2
    /\ pairs[1].close_dt < pairs[2].close_dt
    /\ pairs[2].open_dt < pairs[1].open_dt
    /\ pairs[1].open_dt < pairs[1].close_dt
    /\ pairs[1].open_price # pairs[2].open_price

\* bar t reverses the sign of bar t - 1
StrictFlip(t) ==
    \/ CallRows[t - 1].volume > 0 /\ CallRows[t].volume < 0
    \/ CallRows[t - 1].volume < 0 /\ CallRows[t].volume > 0

\* the events carrying bar_id t, in list order
EventsOfBar(t) == SelectSeq(operates, LAMBDA o : o.bar_id = t)

\* C3: on a strict sign flip at bar t the events of bar t are exactly |prev|
\* closes of the previous direction followed by |cur| opens of the new one,
\* every one with bar t's timestamp, bar index and price.
C3_FlipClosesThenOpens ==
    PairsStarted =>
        \A t \in 2..Len(CallRows) :
            StrictFlip(t) =>
                LET prev == CallRows[t - 1].volume
                    cur == CallRows[t].volume
                IN EventsOfBar(t) =
                       [k \in 1..Abs(prev) + Abs(cur) |->
                           [bar_id |-> t, dt |-> CallRows[t].dt, price |-> CallRows[t].price,
                            operate |-> IF k <= Abs(prev)
                                        THEN (IF prev > 0 THEN CloseLong ELSE CloseShort)
                                        ELSE (IF cur > 0 THEN OpenLong ELSE OpenShort)]]

\* a flip from two units long to two units short, at a price other than the previous bar's
C3_Witness ==
    /\ pc = "done" /\ sym # "-"
    /\ \E t \in 2..Len(CallRows) :
           /\ StrictFlip(t)
           /\ Abs(CallRows[t - 1].volume) = 2 /\ Abs(CallRows[t].volume) = 2
           /\ CallRows[t].price # CallRows[t - 1].price
           /\ Len(EventsOfBar(t)) = 4

\* C4 as stated: a long pair's return is (close - open) / open * 10000, a short
\* pair's return is (open - close) / close * 10000.
C4_ShortReturnOverClose ==
    PairsStarted =>
        \A m \in 1..Len(pairs) :
            pairs[m].ret_raw =
                IF pairs[m].direction = "long"
                THEN Q((pairs[m].close_price - pairs[m].open_price) * 10000, pairs[m].open_price)
                ELSE Q((pairs[m].open_price - pairs[m].close_price) * 10000, pairs[m].close_price)

\* C4, as the code has it: a long pair's return is (close - open) / open * 10000,
\* a short pair's return is (open - close) / open * 10000: both over the open
\* price; the stored return is that value rounded to 2 decimals.
C4_ReturnOverOpen ==
    PairsStarted =>
        \A m \in 1..Len(pairs) :
            /\ pairs[m].direction = (IF pairs[m].events[1] = OpenLong THEN "long" ELSE "short")
            /\ pairs[m].ret_raw =
                IF pairs[m].direction = "long"
                THEN Q((pairs[m].close_price - pairs[m].open_price) * 10000, pairs[m].open_price)
                ELSE Q((pairs[m].open_price - pairs[m].close_price) * 10000, pairs[m].open_price)
            /\ pairs[m].ret = RoundHalfEven(pairs[m].ret_raw, 100)

\* a short pair and a long pair, each closed at a price other than its open price
C4_Witness ==
    /\ pc = "done" /\ sym # "-"
    /\ \E m \in 1..Len(pairs) :
           pairs[m].direction = "short" /\ pairs[m].open_price # pairs[m].close_price
    /\ \E m \in 1..Len(pairs) :
           pairs[m].direction = "long" /\ pairs[m].open_price # pairs[m].close_price

\* the call's series is flat on bars 1..a-1, holds one non-zero weight on bars
\* a..b-1 and is flat again from bar b to the end (a >= 2)
OpenToFlat(a, b) ==
    /\ 2 <= a /\ a < b /\ b <= Len(CallRows)
    /\ \A i \in 1..Len(CallRows) :
           IF a <= i /\ i < b
           THEN CallRows[i].volume # 0 /\ CallRows[i].volume = CallRows[a].volume
           ELSE CallRows[i].volume = 0

\* what C5 says of every pair of such a series
PairOfOpenToFlat(pr, a, b) ==
    /\ pr.open_price = CallRows[a].price
    /\ pr.close_price = CallRows[b].price
    /\ pr.open_dt = CallRows[a].dt /\ pr.close_dt = CallRows[b].dt
    /\ (pr.direction = "long" /\ CallRows[a].price < CallRows[b].price) => pr.ret.n > 0

\* C5 as stated: with digits = 2, a series with a single open-to-flat transition
\* yields exactly one TradePair, opened at the price of the bar where the volume
\* becomes non-zero and closed at the price of the bar where it returns to zero,
\* with a positive return for a long position on rising prices.
C5_ExactlyOnePair ==
    (pc = "done" /\ sym # "-") =>
        \A a, b \in 1..Len(CallRows) :
            OpenToFlat(a, b) =>
                /\ Len(pairs) = 1
                /\ PairOfOpenToFlat(pairs[1], a, b)

\* C5, as the code has it: such a series yields one TradePair per unit lot of
\* the volume int(weight * 10^digits) (100 for a weight of 1), all with those prices
\* and times, each with a positive return for a long position on rising prices.
C5_OnePairPerUnitLot ==
    (pc = "done" /\ sym # "-") =>
        \A a, b \in 1..Len(CallRows) :
            OpenToFlat(a, b) =>
                /\ Len(pairs) = Abs(CallRows[a].volume)
                /\ \A m \in 1..Len(pairs) : PairOfOpenToFlat(pairs[m], a, b)

\* weights 0, 1, 1, 0 at prices 100, 101, 102, 103: 100 pairs from 101 to 103
C5_Witness ==
    /\ pc = "done" /\ sym # "-"
    /\ [i \in 1..Len(dfw) |-> <<dfw[i].weight, dfw[i].price>>]
           = <<(<<0, 100>>), (<<100, 101>>), (<<100, 102>>), (<<0, 103>>)>>
    /\ OpenToFlat(2, 4)
    /\ Len(pairs) = 100
    /\ pairs[1].open_price = 101 /\ pairs[1].close_price = 103
    /\ pairs[1].ret = Q(19802, 100)

\* the bar index of a timestamp of the running call
BarOf(dt) == CHOOSE b \in 1..Len(CallRows) : CallRows[b].dt = dt

\* C18: the pairs are listed in the order of their closes: of any two pairs the
\* earlier has the smaller or the same close bar, and of two pairs closed on the
\* same bar the earlier was opened on the same or a later bar (the most recently
\* opened lot is popped first).
C18_PairsOrderedByClose ==
    PairsStarted =>
        \A i, j \in 1..Len(pairs) :
            i < j =>
                /\ BarOf(pairs[i].close_dt) <= BarOf(pairs[j].close_dt)
                /\ pairs[i].close_dt = pairs[j].close_dt =>
                       BarOf(pairs[i].open_dt) >= BarOf(pairs[j].open_dt)

\* lots opened on two bars and closed together on a third, and a lot closed on
\* an earlier bar
C18_Witness ==
    /\ pc = "done" /\ sym # "-" /\ Len(pairs) >= 3
    /\ \E i \in 1..Len(pairs) - 1 :
           /\ pairs[i].close_dt = pairs[i + 1].close_dt
           /\ pairs[i].open_dt > pairs[i + 1].open_dt
    /\ \E i \in 1..Len(pairs) - 1 : pairs[i].close_dt < pairs[i + 1].close_dt

\* the events of bars 1..t are exactly the events consumed so far
BarMatched(t) == Cardinality({j \in 1..Len(operates) : operates[j].bar_id <= t}) = opIdx

\* the open event of a direction: 1 long, -1 short
OpenOf(dir) == IF dir > 0 THEN OpenLong ELSE OpenShort

\* C21: no close is ever processed against an empty stack; once the events of
\* bar t are matched the stack of unmatched opens holds exactly |v[t]| unit
\* lots, all of the direction of v[t]; every pair joins an open and a close of
\* one direction; and at the end the number of pairs is the number of opened
\* unit lots less |v[last]|.
C21_OpenStack ==
    /\ (sym # "-" /\ dfw # <<>>) => pc # "raised"
    /\ PairsStarted =>
           /\ \A t \in 1..Len(CallRows) :
                  BarMatched(t) =>
                      /\ Len(opens) = Abs(CallRows[t].volume)
                      /\ \A k \in 1..Len(opens) :
                             opens[k].operate = OpenOf(CallRows[t].volume)
           /\ \A m \in 1..Len(pairs) :
                  pairs[m].events \in {<<OpenLong, CloseLong>>, <<OpenShort, CloseShort>>}
           /\ pc = "done" =>
                  Len(pairs) = Cardinality({j \in 1..Len(operates) : IsOpenOp(operates[j])})
                                   - Abs(CallRows[Len(CallRows)].volume)

\* a call with a long pair and a short pair that ends with lots still open
C21_Witness ==
    /\ pc = "done" /\ sym # "-"
    /\ opens # <<>> /\ Len(opens) = Abs(CallRows[Len(CallRows)].volume)
    /\ \E m \in 1..Len(pairs) : pairs[m].events = <<OpenLong, CloseLong>>
    /\ \E m \in 1..Len(pairs) : pairs[m].events = <<OpenShort, CloseShort>>
    /\ \E t \in 2..Len(CallRows) : StrictFlip(t)

\* C22: in every pair the open's bar is strictly before the close's bar, so
\* bars_held is at least 2 and the close time is after the open time.
C22_OpenBeforeClose ==
    PairsStarted =>
        \A m \in 1..Len(pairs) :
            /\ BarOf(pairs[m].open_dt) < BarOf(pairs[m].close_dt)
            /\ pairs[m].bars_held = BarOf(pairs[m].close_dt) - BarOf(pairs[m].open_dt) + 1
            /\ pairs[m].bars_held >= 2
            /\ pairs[m].close_dt > pairs[m].open_dt

\* a flip bar that closes lots of the bar before it and opens lots that are
\* closed on the next bar: both pairs span exactly two bars
C22_Witness ==
    /\ pc = "done" /\ sym # "-"
    /\ \E t \in 2..Len(CallRows) - 1 :
           /\ StrictFlip(t)
           /\ \E m \in 1..Len(pairs) :
                  pairs[m].close_dt = CallRows[t].dt /\ pairs[m].bars_held = 2
           /\ \E m \in 1..Len(pairs) :
                  pairs[m].open_dt = CallRows[t].dt /\ pairs[m].bars_held = 2

----------------------------------------------------------------------------
(* Claims on get_symbol_daily *)

\* the input rows of the running call
DailyRows == SymbolRows(dfw, sym)

\* |weight[t] - weight[t-1]| with the weight before the first bar taken as 0
TurnoverFromFlat(t) ==
    QAbs(QSub(WeightOf(DailyRows[t].weight),
              WeightOf(IF t = 1 THEN 0 ELSE DailyRows[t - 1].weight)))

RECURSIVE SumTurnoverFromFlat(_, _)
SumTurnoverFromFlat(date, t) ==
    IF t > Len(DailyRows) THEN QInt(0)
    ELSE LET rest == SumTurnoverFromFlat(date, t + 1)
         IN IF DateOf(DailyRows[t].dt) = date THEN QAdd(TurnoverFromFlat(t), rest) ELSE rest

\* C6: every bar's turnover is |weight[t] - weight[t-1]|, the first bar's being
\* |weight[0] - 0|, its cost is turnover * fee_rate, and each date's record
\* holds the sums of its bars' turnover and cost, the first bar's included.
C6_FirstBarChargedFromFlat ==
    (pc = "done" /\ dfs # <<>>) =>
        /\ \A t \in 1..Len(dfs) :
               /\ dfs[t].turnover = TurnoverFromFlat(t)
               /\ dfs[t].cost = QMul(TurnoverFromFlat(t), FeeRate)
        /\ \A k \in 1..Len(daily) :
               /\ daily[k].turnover = SumTurnoverFromFlat(daily[k].date, 1)
               /\ daily[k].cost = QMul(SumTurnoverFromFlat(daily[k].date, 1), FeeRate)

\* what the code does: every bar after the first is charged |weight[t] - weight[t-1]|,
\* the first bar's turnover and cost are NaN and add nothing to its date's record
Daily_FirstBarNotCharged ==
    (pc = "done" /\ dfs # <<>>) =>
        /\ IsNaN(dfs[1].turnover) /\ IsNaN(dfs[1].cost) /\ IsNaN(dfs[1].return)
        /\ \A t \in 2..Len(dfs) :
               /\ dfs[t].turnover = TurnoverFromFlat(t)
               /\ dfs[t].cost = QMul(TurnoverFromFlat(t), FeeRate)
        /\ \A k \in 1..Len(daily) :
               /\ daily[k].turnover =
                      QSub(SumTurnoverFromFlat(daily[k].date, 1),
                           IF daily[k].date = DateOf(DailyRows[1].dt)
                           THEN TurnoverFromFlat(1) ELSE QInt(0))

\* C7: on every bar long_edge + short_edge = edge, long_turnover + short_turnover
\* = turnover and long_return + short_return = return (all three undefined
\* together where one is), whatever the two consecutive weights are; and in
\* every daily record long_return + short_return = return.
C7_LongPlusShortIsNet ==
    /\ \A t \in 1..Len(dfs) :
           /\ QAdd(dfs[t].long_edge, dfs[t].short_edge) = dfs[t].edge
           /\ QAdd(dfs[t].long_turnover, dfs[t].short_turnover) = dfs[t].turnover
           /\ QAdd(dfs[t].long_return, dfs[t].short_return) = dfs[t].return
           /\ IsNaN(dfs[t].return) <=> (IsNaN(dfs[t].long_return) \/ IsNaN(dfs[t].short_return))
    /\ \A k \in 1..Len(daily) :
           /\ QAdd(daily[k].long_return, daily[k].short_return) = daily[k].return
           /\ QAdd(daily[k].long_edge, daily[k].short_edge) = daily[k].edge
           /\ QAdd(daily[k].long_turnover, daily[k].short_turnover) = daily[k].turnover

\* a series with a sign flip, a move to zero and a move within one direction,
\* whose daily records carry non-zero long and short returns
C7_Witness ==
    /\ pc = "done" /\ Len(dfs) >= 4
    /\ \E t \in 2..Len(dfs) : dfs[t].weight * dfs[t - 1].weight < 0
    /\ \E t \in 2..Len(dfs) : dfs[t].weight = 0 /\ dfs[t - 1].weight # 0
    /\ \E k \in 1..Len(daily) : daily[k].long_return.n # 0 /\ daily[k].short_return.n # 0


\* what column col of bar t adds to the sum of a date: nothing when it is NaN
\* or on another date
Contribution(t, col, date) ==
    IF dfs[t].date = date /\ ~IsNaN(dfs[t][col]) THEN dfs[t][col] ELSE QInt(0)

\* C23: in every daily record the net return is the edge less the cost, on
\* every date of the series, the dates of the first and of the last bar
\* included.
C23_DailyNetIsEdgeLessCost ==
    (pc = "done" /\ dfs # <<>>) =>
        \A k \in 1..Len(daily) :
            daily[k].return = QSub(daily[k].edge, daily[k].cost)

\* what the code does: the return of a bar is NaN where its edge or its cost
\* is, so a date's return leaves out the first bar's edge, which its edge
\* holds, and the last bar's cost, which its cost holds; no sum is NaN
Daily_NetSkipsEndBars ==
    (pc = "done" /\ dfs # <<>>) =>
        \A k \in 1..Len(daily) :
            LET d == daily[k].date
            IN /\ ~IsNaN(daily[k].return) /\ ~IsNaN(daily[k].edge) /\ ~IsNaN(daily[k].cost)
               /\ daily[k].return =
                      QAdd(QSub(QSub(daily[k].edge, daily[k].cost),
                                Contribution(1, "edge", d)),
                           Contribution(Len(dfs), "cost", d))

----------------------------------------------------------------------------
(* Claims on backtest *)

\* the symbols of the backtest, and their daily records
BTSymbols == SortedSymbols(SymbolsOf(dfw))

SymbolDailys == [k \in 1..Len(BTSymbols) |-> GetSymbolDaily(dfw, BTSymbols[k])]

\* the daily return on a date in one symbol's daily records (0 where it has none)
ReturnOn(dl, date) ==
    LET js == {j \in 1..Len(dl) : dl[j].date = date}
    IN IF js = {} THEN QInt(0) ELSE dl[CHOOSE j \in js : TRUE]["return"]

RECURSIVE SumOverSymbols(_, _, _)
SumOverSymbols(dls, date, k) ==
    IF k > Len(dls) THEN QInt(0)
    ELSE QAdd(ReturnOn(dls[k], date), SumOverSymbols(dls, date, k + 1))

\* every date appearing in any symbol's daily records
AllDates(dls) == UNION { {dls[k][j].date : j \in 1..Len(dls[k])} : k \in 1..Len(dls) }

\* mean over all symbols (ts) or sum (cs)
PortfolioReturn(dls, date) ==
    IF cfg.weight_type = "ts"
    THEN QMul(SumOverSymbols(dls, date, 1), Q(1, Len(dls)))
    ELSE SumOverSymbols(dls, date, 1)

TotalOf(date) ==
    LET dret == inst.results.daily_return
    IN {dret[i].total : i \in {j \in 1..Len(dret) : dret[j].date = date}}

\* C8 as stated: for every date appearing in any symbol's daily records, total
\* is exactly the mean (ts) or the sum (cs) of the daily returns of all symbols
\* of the backtest, a symbol without a record on the date contributing 0.
C8_TotalIsMeanOrSum ==
    pc = "done" =>
        LET dls == SymbolDailys
        IN \A date \in AllDates(dls) : TotalOf(date) = {PortfolioReturn(dls, date)}

\* C8, amended: for every date appearing in any symbol's daily records, total
\* is the mean (ts) or the sum (cs) of the daily returns of all symbols of the
\* backtest, a symbol without a record on the date contributing 0, rounded to
\* 4 decimal places (ties to even); the table has no other date.
C8_TotalIsRoundedMeanOrSum ==
    pc = "done" =>
        LET dls == SymbolDailys
        IN /\ \A date \in AllDates(dls) :
                  TotalOf(date) = {RoundHalfEven(PortfolioReturn(dls, date), 10000)}
           /\ \A i \in 1..Len(inst.results.daily_return) :
                  inst.results.daily_return[i].date \in AllDates(dls)

\* a ts backtest of two symbols with 0.01 and -0.02 on one date (total -0.005),
\* and a date on which one symbol has no record while the other has a return
\* that is not zero
C8_Witness ==
    /\ pc = "done" /\ cfg.weight_type = "ts" /\ Len(BTSymbols) = 2
    /\ LET dls == SymbolDailys
       IN /\ \E date \in AllDates(dls) :
                 /\ ReturnOn(dls[1], date) = Q(1, 100)
                 /\ ReturnOn(dls[2], date) = Q(-2, 100)
                 /\ TotalOf(date) = {Q(-5, 1000)}
          /\ \E date \in AllDates(dls) :
                 /\ \A j \in 1..Len(dls[1]) : dls[1][j].date # date
                 /\ ReturnOn(dls[2], date) = Q(-2, 100)
                 /\ TotalOf(date) = {Q(-1, 100)}

\* the result of the sequential loop on the same input
SequentialResults == [k \in 1..Len(BTSymbols) |-> ProcessSymbol(dfw, BTSymbols[k])]

SymbolRank(s) == CHOOSE k \in 1..Len(SymbolOrder) : SymbolOrder[k] = s

\* rows ordered by symbol, then by the field f
OrderedBy(rows, f) ==
    \A i \in 1..Len(rows) - 1 :
        \/ SymbolRank(rows[i].symbol) < SymbolRank(rows[i + 1].symbol)
        \/ /\ rows[i].symbol = rows[i + 1].symbol
           /\ rows[i][f] <= rows[i + 1][f]

\* C9: whatever the order in which the workers complete, the per-symbol
\* results, the daily-record table, the trade-pair table and the daily-return
\* table are those of the sequential loop on the same input (a function of the
\* input and weight_type only), with rows ordered by symbol and then, for an
\* input whose rows are in time order within each symbol, by date / close time.
C9_MergedAsSequential ==
    pc \in {"merge", "return", "done"} =>
        LET seq == SequentialResults
        IN /\ res = seq
           /\ pc = "done" =>
                  /\ inst.results.symbols = seq
                  /\ inst.dailys = Concat([k \in 1..Len(seq) |-> seq[k].daily])
                  /\ inst.results.pairs = Concat([k \in 1..Len(seq) |-> seq[k].pairs])
                  /\ inst.results.daily_return = DailyReturnTable(cfg.weight_type, seq)
                  /\ DtMonotonic(input) =>
                         /\ OrderedBy(inst.dailys, "date")
                         /\ OrderedBy(inst.results.pairs, "close_dt")
                  /\ \A i \in 1..Len(inst.results.daily_return) - 1 :
                         inst.results.daily_return[i].date
                             < inst.results.daily_return[i + 1].date

\* a pool run of three symbols whose workers completed in an order other than
\* the sorted one, with trade pairs of more than one symbol
C9_Witness ==
    /\ pc = "done" /\ cfg.n_jobs > 1 /\ Len(BTSymbols) = 3
    /\ Len(pool.finished) = 3 /\ pool.finished # BTSymbols
    /\ \E i, j \in 1..Len(inst.results.pairs) :
           inst.results.pairs[i].symbol # inst.results.pairs[j].symbol

\* some symbol's process_symbol raises
SomeSymbolRaises ==
    \E s \in SymbolsOf(input) : ProcessSymbol(RoundTable(input), s).raised

\* C10: when process_symbol raises for some symbol, sequentially or in the
\* pool, the loop is never completed, nothing is aggregated, neither _dailys
\* nor results is ever set, and a run that ends, ends raised; the results of
\* the other symbols collected before the failure are dropped with it.
C10_FailureIsFatal ==
    /\ (pc \in {"merge", "return", "done"} \/ inst # NoInstance) => ~SomeSymbolRaises
    /\ pc \in {"raised", "pool_failed"} => inst = NoInstance
    /\ pc = "raised" => SomeSymbolRaises

\* a pool run that raised after the results of other symbols had been collected
C10_Witness ==
    /\ pc = "raised" /\ cfg.n_jobs > 1
    /\ Len(res) >= 1 /\ Len(pool.finished) = Len(BTSymbols)
    /\ inst = NoInstance

\* a sequential run that raised on its second symbol
C10_WitnessSequential ==
    /\ pc = "raised" /\ cfg.n_jobs <= 1
    /\ Len(res) = 1 /\ inst = NoInstance

\* C11 as stated: the number of worker processes of the pool is at most the
\* number of processing units and at most the number of distinct symbols.
C11_WorkersAtMostCpuAndSymbols ==
    /\ pool.processes <= cfg.cpu_count
    /\ pool.processes <= Cardinality(SymbolsOf(input))

\* what the code bounds: the pool has at most min(n_jobs, cpu_count()) worker
\* processes, and no pool is created for fewer than two
BT_WorkersAtMostCpuAndJobs ==
    /\ pool.processes <= Min2(cfg.n_jobs, cfg.cpu_count)
    /\ pc \in {"pool", "pool_failed"} => pool.processes >= 1

\* some field of some row of the table passed to the constructor is null
InputHasNull == \E i \in 1..Len(input) : \E f \in Fields : f \in input[i].nulls

\* C12: when any field of any row of the table is null, construction fails with
\* the validation error before anything is computed: the weights are not
\* rounded, no symbol is processed, no pool is created and no result is stored;
\* and the validation error is raised for no other table.
C12_NullRejectedFirst ==
    /\ InputHasNull =>
           /\ pc \in {"new", "invalid"}
           /\ dfw = <<>> /\ res = <<>> /\ pool = NoPool /\ inst = NoInstance
    /\ pc = "invalid" => InputHasNull

\* a table of two symbols rejected for a null price in a row of its second block
C12_Witness ==
    /\ pc = "invalid"
    /\ Cardinality(SymbolsOf(input)) = 2
    /\ \E i \in 2..Len(input) :
           /\ input[i].nulls = {"price"}
           /\ input[i].symbol # input[1].symbol
    /\ dfw = <<>> /\ res = <<>> /\ inst = NoInstance

\* C13 as stated: a table in which some symbol's rows are out of time order is
\* rejected before any per-symbol computation begins.
C13_UnsortedRejected ==
    ~DtMonotonic(input) =>
        /\ pc \in {"new", "invalid"}
        /\ res = <<>> /\ inst = NoInstance

\* what the code does: a table without nulls is never rejected by the
\* constructor, in time order or not
BT_OnlyNullsRejected == pc = "invalid" => InputHasNull

\* C15: aggregation starts only after the results of all symbols have been
\* collected: from the end of the loop on, res holds one result for every
\* symbol of the table, no task is pending or running, in the pool every task
\* has finished, and what is aggregated covers every symbol.
C15_JoinBarrier ==
    /\ pc \in {"merge", "return", "done"} =>
           /\ Len(res) = Cardinality(SymbolsOf(dfw))
           /\ {res[k].symbol : k \in 1..Len(res)} = SymbolsOf(dfw)
           /\ pool.queue = <<>> /\ pool.running = {}
           /\ pool.processes > 0 =>
                  {pool.finished[k] : k \in 1..Len(pool.finished)} = SymbolsOf(dfw)
    /\ inst # NoInstance =>
           /\ pc \in {"return", "done"}
           /\ {inst.results.symbols[k].symbol : k \in 1..Len(inst.results.symbols)}
                  = SymbolsOf(dfw)
           /\ {inst.dailys[k].symbol : k \in 1..Len(inst.dailys)} = SymbolsOf(dfw)

\* a pool run of three symbols that has aggregated, the first symbol of the
\* sorted list having finished last
C15_Witness ==
    /\ pc = "return" /\ pool.processes >= 2
    /\ Len(Symbols) = 3
    /\ pool.finished[3] = Symbols[1]
    /\ Len(inst.results.symbols) = 3

----------------------------------------------------------------------------
(* Claims on the independence of the symbols *)

\* the table with the rows of symbol other replaced by the series ser, put first
ReplaceSymbol(table, other, ser) ==
    MkRows(other, ser) \o SelectSeq(table, LAMBDA r : r.symbol # other)

\* tables with the same rows for symbol s and other rows for the other symbols:
\* one other symbol replaced (or added), or all other symbols removed
OtherTables(table, s) ==
    { ReplaceSymbol(table, other, ser) :
          other \in {SymbolOrder[k] : k \in 1..Len(SymbolOrder)} \ {s},
          ser \in IndepSeries }
    \cup {SelectSeq(table, LAMBDA r : r.symbol = s)}

\* C14: for every table with the same rows for sym and different rows for the
\* other symbols, the rows of sym returned by stoploss_by_direction are the
\* same, and process_symbol(sym) returns the same daily records and the same
\* trade pairs.
C14_SymbolsIndependent ==
    /\ pc \in {"stopped", "done"} =>
           \A t2 \in OtherTables(dfw, sym) :
               SelectSeq(StoplossTable(t2, Stoploss), LAMBDA r : r.symbol = sym)
                   = SelectSeq(slOut, LAMBDA r : r.symbol = sym)
    /\ pc = "done" =>
           \A t2 \in OtherTables(dfw, sym) : ProcessSymbol(t2, sym) = res[1]

\* a table of three symbols, rows interleaved in time, for whose middle symbol
\* the stop has zeroed a weight and trade pairs were built, another symbol
\* having been stopped too
C14_Witness ==
    /\ pc = "done" /\ sym = "B"
    /\ Cardinality(SymbolsOf(dfw)) = 3
    /\ dfw[1].symbol = "A" /\ dfw[2].symbol = "B"
    /\ \E i \in 1..Len(slOut) :
           slOut[i].symbol = "B" /\ slOut[i].weight = 0 /\ slOut[i].raw_weight # 0
    /\ \E i \in 1..Len(slOut) :
           slOut[i].symbol # "B" /\ slOut[i].weight = 0 /\ slOut[i].raw_weight # 0
    /\ ~res[1].raised /\ res[1].pairs # <<>> /\ res[1].daily # <<>>

----------------------------------------------------------------------------
(* Claims on get_ensemble_weight *)

\* the whole call on a list of positions
RECURSIVE EnsembleLoop(_, _)
EnsembleLoop(st, positions) ==
    IF st.raised \/ positions = <<>> THEN st
    ELSE EnsembleLoop(AddPosition(st.frame, Head(positions)), Tail(positions))

EnsembleOf(symbol, method, positions) ==
    LET st == EnsembleLoop([raised |-> FALSE, frame |-> NoFrame], positions)
    IN IF st.raised THEN [raised |-> TRUE, out |-> <<>>]
       ELSE WeightTable(symbol, method, st.frame)

\* the orders in which the positions can be listed
Orders(n) == {f \in [1..n -> 1..n] : \A i, j \in 1..n : f[i] = f[j] => i = j}

\* the timestamp axis of a position
AxisOf(p) == [i \in 1..Len(p.holds) |-> p.holds[i].dt]

AxesIdentical == \A i, j \in 1..Len(trader.positions) :
                     AxisOf(trader.positions[i]) = AxisOf(trader.positions[j])

\* the signed values of all positions at a timestamp, summed
RECURSIVE PosSum(_, _)
PosSum(positions, dt) ==
    IF positions = <<>> THEN 0
    ELSE LET h == SelectSeq(Head(positions).holds, LAMBDA x : x.dt = dt)
         IN (IF h = <<>> THEN 0 ELSE h[1].pos) + PosSum(Tail(positions), dt)

\* C16: with method vote on positions that share one timestamp axis, the
\* returned table has one row per timestamp, whose weight is the sign (-1, 0 or
\* 1) of the sum of all positions' values at that timestamp, and listing the
\* positions in any other order returns the same table.
C16_VoteIsSignOfSum ==
    (pc = "done" /\ trader.method = "vote" /\ AxesIdentical) =>
        /\ Len(dfp.out) = Len(trader.positions[1].holds)
        /\ \A i \in 1..Len(dfp.out) :
               /\ dfp.out[i].dt = trader.positions[1].holds[i].dt
               /\ dfp.out[i].weight = QInt(Sign(PosSum(trader.positions, dfp.out[i].dt)))
               /\ dfp.out[i].weight \in {QInt(-1), QInt(0), QInt(1)}
        /\ \A f \in Orders(Len(trader.positions)) :
               EnsembleOf(trader.symbol, trader.method,
                          [k \in 1..Len(trader.positions) |-> trader.positions[f[k]]])
                   = [raised |-> FALSE, out |-> dfp.out]

\* positions A: 1, B: 1, C: -1 at one timestamp give 1, and A: 1, B: -1, C: 0
\* at the other give 0
C16_Witness ==
    /\ pc = "done" /\ trader.method = "vote"
    /\ Len(trader.positions) = 3
    /\ \A k \in 1..3 : Len(trader.positions[k].holds) = 2
    /\ <<trader.positions[1].holds[1].pos, trader.positions[2].holds[1].pos,
         trader.positions[3].holds[1].pos>> = <<1, 1, -1>>
    /\ <<trader.positions[1].holds[2].pos, trader.positions[2].holds[2].pos,
         trader.positions[3].holds[2].pos>> = <<1, -1, 0>>
    /\ dfp.out[1].weight = QInt(1) /\ dfp.out[2].weight = QInt(0)

\* C17 as stated: whenever the timestamp axes of the positions are not all
\* identical, the call fails and returns no weight table.
C17_DifferentAxesFail ==
    ~AxesIdentical => pc # "done" /\ dfp.out = <<>>

\* what the code rejects: an axis that differs from that of the first position
\* whose hold series is not empty; the empty series listed before it are
\* dropped without an error
Ens_LaterAxisMustMatch ==
    LET ne == {k \in 1..Len(trader.positions) : trader.positions[k].holds # <<>>}
        first == CHOOSE k \in ne : \A j \in ne : k <= j
    IN (pc = "done" /\ ne # {}) =>
           \A k \in first..Len(trader.positions) :
               AxisOf(trader.positions[k]) = AxisOf(trader.positions[first])

----------------------------------------------------------------------------
(* freq_end_time and BarGenerator                                           *)
(*                                                                          *)
(* A datetime is a number of minutes counted from a Monday 00:00 (seconds   *)
(* are dropped by freq_end_time).  The frequencies carry the names of the   *)
(* members of Freq; month, season and year need a calendar and are not      *)
(* tracked by the generators of the model.                                  *)

\* freq_end_time for the minute frequencies, the day and the week
FreqEndTime(dt, freq) ==
    LET minute == dt % 60
        hour == (dt \div 60) % 24
        day == dt - (dt % 1440)
        dt_span == <<60, 120, 180, 630, 690, 840, 900, 1320, 1380, 1439>>
    IN IF freq \in {"F1", "F5", "F15", "F30"}
       THEN LET m == CASE freq = "F1" -> 1 [] freq = "F5" -> 5
                       [] freq = "F15" -> 15 [] freq = "F30" -> 30
            IN IF (hour = 15 /\ minute = 0) \/ (hour = 11 /\ minute = 30) THEN dt
               ELSE IF minute % m # 0 THEN dt + (m - (minute % m))
               ELSE dt
       ELSE IF freq = "F60"
       THEN LET i == CHOOSE k \in 1..Len(dt_span) :
                         /\ dt <= day + dt_span[k]
                         /\ \A j \in 1..k - 1 : dt > day + dt_span[j]
            IN day + dt_span[i]
       ELSE IF freq = "D" THEN day
       ELSE day + (5 - (((day \div 1440) % 7) + 1)) * 1440

\* sorted_freqs of __validate_freqs
SortedFreqs == <<"Tick", "F1", "F5", "F15", "F30", "F60", "D", "W", "M", "S", "Y">>

\* BarGenerator(base_freq, freqs, max_count); raised: __validate_freqs found a
\* frequency below the base frequency (ValueError)
BarGenerator(base_freq, freqs, max_count) ==
    LET i == CHOOSE k \in 1..Len(SortedFreqs) : SortedFreqs[k] = base_freq
        f == {SortedFreqs[k] : k \in i..Len(SortedFreqs)}
    IN [base_freq |-> base_freq, max_count |-> max_count, symbol |-> "-", end_dt |-> -1,
        bars |-> [v \in {freqs[k] : k \in 1..Len(freqs)} \cup {base_freq} |-> <<>>],
        raised |-> \E k \in 1..Len(freqs) : freqs[k] \notin f]

RawBar(symbol, freq, dt, id, open, close, high, low, vol, amount) ==
    [symbol |-> symbol, freq |-> freq, dt |-> dt, id |-> id, open |-> open,
     close |-> close, high |-> high, low |-> low, vol |-> vol, amount |-> amount]

\* a variant of MergeBar: the merged bar opens at the new bar's open
MergeBarNewOpen(last, bar, freq, freq_edt) ==
    RawBar(bar.symbol, freq, freq_edt, last.id, bar.open, bar.close,
           IF last.high >= bar.high THEN last.high ELSE bar.high,
           Min2(last.low, bar.low), last.vol + bar.vol, last.amount + bar.amount)

\* the bar that replaces the last bar of the frequency
MergeBar(last, bar, freq, freq_edt) ==
    RawBar(bar.symbol, freq, freq_edt, last.id, last.open, bar.close,
           IF last.high >= bar.high THEN last.high ELSE bar.high,
           Min2(last.low, bar.low), last.vol + bar.vol, last.amount + bar.amount)

\* _update_freq on b = self.bars[freq.value]
UpdateFreq(b, bar, freq) ==
    LET freq_edt == FreqEndTime(bar.dt, freq)
    IN IF b = <<>>
       THEN <<RawBar(bar.symbol, freq, freq_edt, 0, bar.open, bar.close, bar.high,
                     bar.low, bar.vol, bar.amount)>>
       ELSE LET last == b[Len(b)]
            IN IF freq_edt # last.dt
               THEN Append(b, RawBar(bar.symbol, freq, freq_edt, last.id + 1, bar.open,
                                     bar.close, bar.high, bar.low, bar.vol, bar.amount))
               ELSE [b EXCEPT ![Len(b)] = MergeBar(last, bar, freq, freq_edt)]

\* a variant of MaxCountTail: the oldest max_count bars are kept
MaxCountHead(b, max_count) == SubSeq(b, 1, Min2(Len(b), max_count))

\* b[-max_count:]
MaxCountTail(b, max_count) ==
    IF max_count > 0
    THEN SubSeq(b, IF Len(b) > max_count THEN Len(b) - max_count + 1 ELSE 1, Len(b))
    ELSE SubSeq(b, 1 - max_count, Len(b))

\* update(bar) for a bar of the base frequency: [bg, outcome]
Update(g, bar) ==
    LET base == g.bars[g.base_freq]
        seen == [g EXCEPT !.symbol = bar.symbol, !.end_dt = bar.dt]
    IN IF base # <<>> /\ base[Len(base)].dt = bar.dt
       THEN [bg |-> seen, outcome |-> "repeated"]
       ELSE [bg |-> [seen EXCEPT !.bars =
                        [f \in DOMAIN g.bars |->
                            MaxCountTail(UpdateFreq(g.bars[f], bar, f), g.max_count)]],
             outcome |-> "accepted"]

\* init_freq_bars(freq, bars) with a non-empty list bars: [bg, outcome]
InitFreqBars(g, freq, bars) ==
    IF freq \notin DOMAIN g.bars \/ g.bars[freq] # <<>>
    THEN [bg |-> g, outcome |-> "AssertionError"]
    ELSE [bg |-> [g EXCEPT !.bars[freq] = bars, !.symbol = bars[Len(bars)].symbol],
          outcome |-> "ok"]

----------------------------------------------------------------------------
(* Specification SpecBG: a generator, loaded by init_freq_bars and fed by    *)
(* update with bars of its base frequency in time order                     *)

\* calls made on one generator
MaxUpdates == 4

\* base frequency and tracked frequencies; the last one is refused
BGConfigs ==
    {[base_freq |-> "F1", freqs |-> <<"F5", "D">>],
     [base_freq |-> "F60", freqs |-> <<"D">>],
     [base_freq |-> "D", freqs |-> <<"W">>],
     [base_freq |-> "D", freqs |-> <<"F5">>]}

\* the times of the bars fed: the first bar's (Monday 11:29 of the second
\* week; Monday 23:00; Thursday 00:00 or 15:00) and the steps to the next bar
BGFeed(base_freq) ==
    CASE base_freq = "F1" -> [starts |-> {10769}, gaps |-> {0, 2, 1440}]
      [] base_freq = "F60" -> [starts |-> {11460}, gaps |-> {0, 60, 1440}]
      [] base_freq = "D" -> [starts |-> {14400, 15300}, gaps |-> {0, 1440, 4320}]

\* a bar of the base frequency: rising or falling
BaseBar(base_freq, dt, rising) ==
    IF rising THEN RawBar("A", base_freq, dt, 0, 10, 12, 13, 9, 1, 10)
    ELSE RawBar("A", base_freq, dt, 0, 12, 8, 12, 7, 2, 30)

\* three bars of the first week to load with init_freq_bars
Preloaded(freq) ==
    [k \in 1..3 |-> RawBar("A", freq, 1440 * k, k - 1, 10, 11, 11, 10, 1, 10)]

InitBG ==
    /\ pc = "bg"
    /\ \E c \in BGConfigs : \E max_count \in {2, 5000} :
           bg = BarGenerator(c.base_freq, c.freqs, max_count)
    /\ fed = <<>>
    /\ call = [n |-> 0, op |-> "-", freq |-> "-", bar |-> <<>>, before |-> <<>>,
               outcome |-> "-", loaded |-> {}, prev |-> <<>>]
    /\ dfw = <<>> /\ sym = "-"
    /\ IdleSL /\ IdlePairs /\ IdleDaily /\ IdleBT /\ IdleEns

\* update(bar): the first bar at a start time, a later one at the time of the
\* bar before it or later
BGUpdate ==
    /\ pc = "bg" /\ ~bg.raised /\ call.n < MaxUpdates
    /\ \E dt \in (IF bg.end_dt = -1 THEN BGFeed(bg.base_freq).starts
                   ELSE {bg.end_dt + gap : gap \in BGFeed(bg.base_freq).gaps}) :
       \E rising \in BOOLEAN :
           LET bar == BaseBar(bg.base_freq, dt, rising)
               r == Update(bg, bar)
           IN /\ bg' = r.bg
              /\ fed' = IF r.outcome = "accepted" THEN Append(fed, bar) ELSE fed
              /\ call' = [n |-> call.n + 1, op |-> "update", freq |-> bg.base_freq,
                          bar |-> bar, before |-> bg.bars, outcome |-> r.outcome,
                          loaded |-> call.loaded, prev |-> call.bar]
    /\ UNCHANGED <<pc, dfw, sym, slVars, pairVars, dailyVars, btVars, ensVars>>

\* init_freq_bars(freq, bars) for a tracked frequency or the month
BGInitFreqBars ==
    /\ pc = "bg" /\ ~bg.raised /\ call.n < MaxUpdates
    /\ \E freq \in DOMAIN bg.bars \cup {"M"} :
           LET r == InitFreqBars(bg, freq, Preloaded(freq))
           IN /\ bg' = r.bg
              /\ call' = [n |-> call.n + 1, op |-> "init_freq_bars", freq |-> freq,
                          bar |-> <<>>, before |-> bg.bars, outcome |-> r.outcome,
                          loaded |-> IF r.outcome = "ok" THEN call.loaded \cup {freq}
                                     ELSE call.loaded,
                          prev |-> call.bar]
    /\ UNCHANGED <<fed, pc, dfw, sym, slVars, pairVars, dailyVars, btVars, ensVars>>

NextBG == BGUpdate \/ BGInitFreqBars

SpecBG == InitBG /\ [][NextBG]_vars

----------------------------------------------------------------------------
(* Claims on BarGenerator *)

\* a generator is constructed
BGRunning == pc = "bg" /\ ~bg.raised

\* the accepted bars whose end time at frequency f is dt, as positions in fed
GroupOf(f, dt) == {i \in 1..Len(fed) : FreqEndTime(fed[i].dt, f) = dt}

RECURSIVE SumOfFed(_, _)
SumOfFed(S, col) ==
    IF S = {} THEN 0
    ELSE LET i == CHOOSE x \in S : TRUE IN fed[i][col] + SumOfFed(S \ {i}, col)

\* bar is the aggregate of the accepted bars at the positions S
AggregateOf(bar, S) ==
    /\ S # {}
    /\ \E first \in S :
           (\A i \in S : first <= i) /\ bar.open = fed[first].open
    /\ \E last \in S :
           (\A i \in S : i <= last) /\ bar.close = fed[last].close
    /\ \E i \in S : bar.high = fed[i].high
    /\ \A i \in S : bar.high >= fed[i].high
    /\ \E i \in S : bar.low = fed[i].low
    /\ \A i \in S : bar.low <= fed[i].low
    /\ bar.vol = SumOfFed(S, "vol")
    /\ bar.amount = SumOfFed(S, "amount")

\* C24: with bars fed in time order, nothing loaded by init_freq_bars and no
\* more bars than max_count, every stored bar of every tracked frequency is
\* the aggregate of the accepted bars whose end time at that frequency is the
\* stored bar's dt (open of the first, close of the last, highest high, lowest
\* low, sums of vol and amount), every accepted bar is in one of them, and
\* along a list dt increases strictly and id by exactly 1.
C24_StoredBarIsAggregate ==
    (BGRunning /\ call.loaded = {} /\ Len(fed) <= bg.max_count) =>
        \A f \in DOMAIN bg.bars :
            LET b == bg.bars[f]
            IN /\ \A k \in 1..Len(b) :
                      /\ b[k].freq = f
                      /\ AggregateOf(b[k], GroupOf(f, b[k].dt))
               /\ \A i \in 1..Len(fed) :
                      \E k \in 1..Len(b) : b[k].dt = FreqEndTime(fed[i].dt, f)
               /\ \A k \in 1..Len(b) - 1 :
                      b[k].dt < b[k + 1].dt /\ b[k + 1].id = b[k].id + 1

\* a higher frequency holds two bars, one of them made of a rising and a
\* falling bar
C24_Witness ==
    /\ BGRunning /\ call.loaded = {} /\ Len(fed) <= bg.max_count
    /\ \E f \in DOMAIN bg.bars \ {bg.base_freq} :
           /\ Len(bg.bars[f]) = 2
           /\ \E k \in 1..2 :
                  /\ Cardinality(GroupOf(f, bg.bars[f][k].dt)) = 2
                  /\ bg.bars[f][k].vol = 3
                  /\ bg.bars[f][k].open # bg.bars[f][k].close

\* the last call was update with a bar whose dt is the dt of the last stored
\* bar of the base frequency
RepeatsStoredDt ==
    /\ BGRunning /\ call.op = "update"
    /\ call.before[bg.base_freq] # <<>>
    /\ call.before[bg.base_freq][Len(call.before[bg.base_freq])].dt = call.bar.dt

\* the last two calls were update with the same bar
SameBarTwice == BGRunning /\ call.op = "update" /\ call.bar = call.prev

\* C25: update with a bar whose dt is the dt of the last stored bar of the
\* base frequency leaves the bar lists of all frequencies as they were, and
\* so does update with the bar of the update just before it (the same bar fed
\* twice in a row is counted once).
C25_RepeatedBarIsNoOp ==
    (RepeatsStoredDt \/ SameBarTwice) => bg.bars = call.before

\* what the code does: the bar's dt is compared with the stored dt, which is
\* the end time of the bar accepted last at the base frequency; the same bar
\* fed twice is dropped when its dt is its own end time, and is accepted and
\* merged into the last bars otherwise
BG_RepeatComparesEndTime ==
    /\ RepeatsStoredDt => (bg.bars = call.before /\ call.outcome = "repeated")
    /\ SameBarTwice =>
           IF FreqEndTime(call.bar.dt, bg.base_freq) = call.bar.dt
           THEN bg.bars = call.before /\ call.outcome = "repeated"
           ELSE /\ call.outcome = "accepted"
                /\ \A f \in DOMAIN bg.bars :
                       /\ Len(bg.bars[f]) = Len(call.before[f])
                       /\ bg.bars[f][Len(bg.bars[f])].vol =
                              call.before[f][Len(call.before[f])].vol + call.bar.vol

====
